---- MODULE Spec2Model ----
(***************************************************************************)
(* Course-plan engine of frontend/src/App.jsx: the local auto-planner      *)
(* (generateOptimalSchedule / generateLocalSchedule), the prerequisite     *)
(* evaluator (getCoursesBeforeSemester, evaluatePrereqTree, prereqsMet)    *)
(* and the manual plan edits (handleDrop, addCourseToSemester,             *)
(* removeCourse).                                                          *)
(***************************************************************************)
EXTENDS Integers, Sequences, FiniteSets, TLC

(***************************************************************************)
(* The catalog, the semesters and the input domains                        *)
(***************************************************************************)

\* SEMESTERS (App.jsx 564-573): the ids of the eight slots, in order.
SEMESTERS ==
  <<"fall1", "spring1", "fall2", "spring2", "fall3", "spring3", "fall4", "spring4">>

SemesterIds == {SEMESTERS[k] : k \in 1..Len(SEMESTERS)}

\* The indices 0 .. SEMESTERS.length - 1 the code iterates over.
SemIdxs == 0..(Len(SEMESTERS) - 1)

\* EMPTY_PLAN (App.jsx 576-579).
EMPTY_PLAN == [s \in SemesterIds |-> <<>>]

\* Keys of allCourses, in Object.entries order.
CatalogOrder == <<"A", "B", "C">>

Codes == {CatalogOrder[k] : k \in 1..Len(CatalogOrder)}

\* The keys of a second, longer catalog: a chain of nine courses.
ChainOrder == <<"K1", "K2", "K3", "K4", "K5", "K6", "K7", "K8", "K9">>

ChainCodes == {ChainOrder[k] : k \in 1..Len(ChainOrder)}

\* A course code that is not a key of allCourses.
UnknownCode == "X"

AllCodes == Codes \cup {UnknownCode}

\* Largest number of codes in one flat prerequisite list.
MaxPrereqs == 2

\* The flat prerequisite lists a course may have: codes other than its own.
PrereqLists(code) ==
  {P \in SUBSET (AllCodes \ {code}) : Cardinality(P) <= MaxPrereqs}

\* The remaining fields of a course record; credits / difficulty 0 stands for
\* a missing (falsy) field.
CourseKinds ==
  { [credits |-> 0, difficulty |-> 0, category |-> "cs_core", required |-> TRUE],
    [credits |-> 3, difficulty |-> 4, category |-> "cs_elective", required |-> TRUE],
    [credits |-> 16, difficulty |-> 2, category |-> "science", required |-> FALSE],
    [credits |-> 4, difficulty |-> 4, category |-> "cs_elective", required |-> FALSE] }

\* A missing prereqs_structured field (undefined), and a null tree node.
NoTree == [null |-> TRUE]

CourseInfo(kind, prereqs) ==
  [prereqs |-> prereqs, prereqs_structured |-> NoTree, credits |-> kind.credits,
   difficulty |-> kind.difficulty, category |-> kind.category,
   required |-> kind.required]

\* Codes the student may have completed or be enrolled in.
TakenPool == {"A"}

Catalogs ==
  {[c \in Codes |-> CourseInfo(kinds[c], pre[c])] :
     kinds \in [Codes -> CourseKinds],
     pre \in {f \in [Codes -> SUBSET AllCodes] : \A c \in Codes : f[c] \in PrereqLists(c)}}

\* Requirement trees. AND / OR nodes are objects held by reference: treeNodes
\* maps a node id to the object, and [ref |-> n] is a reference to it. A
\* COURSE leaf {type: 'COURSE', code} has no children and is written in place.
NodeIds == {1, 2}

\* Largest number of entries of one requirements array.
MaxChildren == 2

Leaves == {[type |-> "COURSE", code |-> c] : c \in Codes}

Refs == {[ref |-> n] : n \in NodeIds}

RequirementLists ==
  UNION {[1..n -> Leaves \cup Refs] : n \in 0..MaxChildren}

InnerNodes == [type : {"AND", "OR"}, requirements : RequirementLists]

\* The course whose prerequisites are a requirement tree.
TreeCourse == "T"

\* Depth of recursion at which the engine throws RangeError (stack overflow).
StackLimit == 8

VARIABLES
  treeNodes,         \* node id -> AND / OR node object
  hasPrereqs,        \* outcome of the last prereqsMet call, as a string
  allCourses,        \* the catalog: code -> course record
  coursesLoading,    \* TRUE until loadCourses has settled
  aiAnalysis,        \* the report of the last analysis, or NoAnalysis
  completedCodes,    \* codes of result.completed
  inProgressCodes,   \* codes of result.in_progress
  balanced,          \* preferences.balanced
  bestProfessors,    \* preferences.bestProfessors
  semesterPlan,      \* semester id -> list of codes
  autoplanWarnings,  \* list of warnings shown with the plan
  analyzing,         \* the busy flag
  pc,                \* position inside generateOptimalSchedule
  response,          \* the settled auto-plan request, or NoResponse
  toPlace,           \* generateLocalSchedule: candidates still to place
  placedBySemester,  \* generateLocalSchedule: index -> list of codes
  placed,            \* generateLocalSchedule: set of placed or taken codes
  changed,           \* generateLocalSchedule: did this pass place a course
  passes,            \* generateLocalSchedule: passes started
  i,                 \* generateLocalSchedule: index of the for loop
  draggedCourse,     \* code being dragged, or NoDrag
  dragSource         \* "library", a semester id, or NoDrag

vars ==
  <<response, allCourses, completedCodes, inProgressCodes, balanced, semesterPlan,
    autoplanWarnings, analyzing, pc, toPlace, placedBySemester, placed, changed,
    passes, i, draggedCourse, dragSource, treeNodes, hasPrereqs, coursesLoading,
    aiAnalysis, bestProfessors>>

evalVars == <<treeNodes, hasPrereqs, aiAnalysis>>

inputVars ==
  <<allCourses, completedCodes, inProgressCodes, balanced, bestProfessors,
    coursesLoading>>

schedVars == <<toPlace, placedBySemester, placed, changed, passes, i>>

dragVars == <<draggedCourse, dragSource>>

NoDrag == "null"

\* No auto-plan request has settled; and a response without a plan.
NoResponse == [null |-> TRUE]

NoPlan == [null |-> TRUE]

NoAnalysis == [null |-> TRUE]

(***************************************************************************)
(* Helpers                                                                 *)
(***************************************************************************)

Range(s) == {s[k] : k \in 1..Len(s)}

Includes(s, x) == \E k \in 1..Len(s) : s[k] = x

\* Array.prototype.filter(c => c !== x)
RECURSIVE FilterOut(_, _)
FilterOut(s, x) ==
  IF s = <<>> THEN <<>>
  ELSE IF Head(s) = x THEN FilterOut(Tail(s), x)
       ELSE <<Head(s)>> \o FilterOut(Tail(s), x)

\* toPlace.splice(k, 1) with a 0-based k
Splice(s, k) == SubSeq(s, 1, k) \o SubSeq(s, k + 2, Len(s))

Max(S) == CHOOSE m \in S : \A x \in S : x <= m

\* allCourses[c]?.credits || 3
CreditsOf(c) ==
  IF c \in DOMAIN allCourses /\ allCourses[c].credits # 0
  THEN allCourses[c].credits ELSE 3

\* allCourses[c]?.difficulty || 3
DifficultyOf(c) ==
  IF c \in DOMAIN allCourses /\ allCourses[c].difficulty # 0
  THEN allCourses[c].difficulty ELSE 3

\* list.reduce((s, c) => s + (allCourses[c]?.credits || 3), 0)
RECURSIVE SumCredits(_)
SumCredits(s) == IF s = <<>> THEN 0 ELSE CreditsOf(Head(s)) + SumCredits(Tail(s))

\* list.filter(c => (allCourses[c]?.difficulty || 3) >= 4).length
RECURSIVE HardCount(_)
HardCount(s) ==
  IF s = <<>> THEN 0
  ELSE (IF DifficultyOf(Head(s)) >= 4 THEN 1 ELSE 0) + HardCount(Tail(s))

(***************************************************************************)
(* generateLocalSchedule                                                   *)
(***************************************************************************)

alreadyTaken == completedCodes \cup inProgressCodes

MandatoryCategories == {"cs_core", "math_core", "math_discrete", "stats", "science"}

\* Variant: every course not yet taken is a candidate.
IsCandidateAnyUntaken(code) ==
  code \notin alreadyTaken

IsCandidate(code) ==
  /\ code \notin alreadyTaken
  /\ \/ allCourses[code].required
     \/ allCourses[code].category \in MandatoryCategories

\* Object.entries(allCourses): the keys in insertion order.
EntriesOrder ==
  IF DOMAIN allCourses = ChainCodes THEN ChainOrder ELSE CatalogOrder

\* The forEach over Object.entries(allCourses) that fills toPlace.
RECURSIVE BuildToPlace(_)
BuildToPlace(order) ==
  IF order = <<>> THEN <<>>
  ELSE (IF IsCandidate(Head(order)) THEN <<Head(order)>> ELSE <<>>)
       \o BuildToPlace(Tail(order))

\* Variant: a prerequisite that is not in the catalog counts as placed in the
\* first semester.
PrereqSemUnknownPlaced(prereq, pbs) ==
  IF prereq \notin DOMAIN allCourses THEN 0
  ELSE IF \E k \in SemIdxs : Includes(pbs[k], prereq)
       THEN CHOOSE k \in SemIdxs :
              /\ Includes(pbs[k], prereq)
              /\ \A j \in SemIdxs : Includes(pbs[j], prereq) => k <= j
       ELSE -1

\* First index whose list includes the prerequisite, or -1.
PrereqSem(prereq, pbs) ==
  IF \E k \in SemIdxs : Includes(pbs[k], prereq)
  THEN CHOOSE k \in SemIdxs :
         /\ Includes(pbs[k], prereq)
         /\ \A j \in SemIdxs : Includes(pbs[j], prereq) => k <= j
  ELSE -1

\* Variant: an untaken prerequisite shares the semester (prereqSem, not + 1).
getEarliestSemesterSameSem(code, pbs) ==
  IF code \notin DOMAIN allCourses THEN 0
  ELSE LET untaken == allCourses[code].prereqs \ alreadyTaken
       IN IF \E p \in untaken : PrereqSem(p, pbs) = -1 THEN -1
          ELSE Max({0} \cup {PrereqSem(p, pbs) : p \in untaken})

\* Variant: an unplaced prerequisite is skipped (continue, not return -1).
getEarliestSemesterSkipUnplaced(code, pbs) ==
  IF code \notin DOMAIN allCourses THEN 0
  ELSE LET untaken == allCourses[code].prereqs \ alreadyTaken
       IN Max({0} \cup {PrereqSem(p, pbs) + 1 : p \in untaken})

getEarliestSemester(code, pbs) ==
  IF code \notin DOMAIN allCourses THEN 0
  ELSE LET untaken == allCourses[code].prereqs \ alreadyTaken
       IN IF \E p \in untaken : PrereqSem(p, pbs) = -1 THEN -1
          ELSE Max({0} \cup {PrereqSem(p, pbs) + 1 : p \in untaken})

\* Variant: the balanced cap is not applied.
maxCreditsIgnoreBalanced == IF balanced THEN 18 ELSE 18

maxCredits == IF balanced THEN 15 ELSE 18

\* Variant: the difficulty test compares with 3.
TooManyHardAt3(code, list) ==
  balanced /\ DifficultyOf(code) >= 4 /\ HardCount(list) >= 3

\* Variant: the difficulty test ignores the difficulty of the course itself.
TooManyHardAnyCourse(code, list) ==
  balanced /\ HardCount(list) >= 2

\* The difficulty test of a semester for a course, made only in balanced mode.
TooManyHard(code, list) ==
  balanced /\ DifficultyOf(code) >= 4 /\ HardCount(list) >= 2

\* Variant: the scan goes on after a placement (no break).
RECURSIVE ScanSemestersNoBreak(_, _, _)
ScanSemestersNoBreak(code, semIdx, pbs) ==
  IF semIdx >= Len(SEMESTERS) THEN pbs
  ELSE IF SumCredits(pbs[semIdx]) + CreditsOf(code) <= maxCredits
       THEN IF TooManyHard(code, pbs[semIdx])
            THEN ScanSemestersNoBreak(code, semIdx + 1, pbs)
            ELSE ScanSemestersNoBreak(code, semIdx + 1,
                                      [pbs EXCEPT ![semIdx] = Append(@, code)])
       ELSE ScanSemestersNoBreak(code, semIdx + 1, pbs)

\* The inner for loop: placedBySemester after scanning from semIdx on.
\* Variant: the placed course goes to the front of the semester's list.
RECURSIVE ScanSemestersPrepend(_, _, _)
ScanSemestersPrepend(code, semIdx, pbs) ==
  IF semIdx >= Len(SEMESTERS) THEN pbs
  ELSE IF SumCredits(pbs[semIdx]) + CreditsOf(code) <= maxCredits
       THEN IF TooManyHard(code, pbs[semIdx])
            THEN ScanSemestersPrepend(code, semIdx + 1, pbs)
            ELSE [pbs EXCEPT ![semIdx] = <<code>> \o @]
       ELSE ScanSemestersPrepend(code, semIdx + 1, pbs)

RECURSIVE ScanSemesters(_, _, _)
ScanSemesters(code, semIdx, pbs) ==
  IF semIdx >= Len(SEMESTERS) THEN pbs
  ELSE IF SumCredits(pbs[semIdx]) + CreditsOf(code) <= maxCredits
       THEN IF TooManyHard(code, pbs[semIdx])
            THEN ScanSemesters(code, semIdx + 1, pbs)
            ELSE [pbs EXCEPT ![semIdx] = Append(@, code)]
       ELSE ScanSemesters(code, semIdx + 1, pbs)

\* generateOptimalSchedule up to the fetch.
AutoPlanStart ==
  /\ pc = "idle"
  /\ analyzing' = TRUE
  /\ autoplanWarnings' = <<>>
  /\ pc' = "fetch"
  /\ UNCHANGED <<response, inputVars, semesterPlan, schedVars, dragVars, evalVars>>

\* The fetch throws, or the response lacks success or a plan: the fallback
\* enters generateLocalSchedule, which sets up its locals.
LocalBegin ==
  /\ pc = "fetch"
  /\ toPlace' = BuildToPlace(EntriesOrder)
  /\ placedBySemester' = [k \in SemIdxs |-> <<>>]
  /\ placed' = alreadyTaken
  /\ changed' = TRUE
  /\ passes' = 0
  /\ i' = -1
  /\ pc' = "while"
  /\ UNCHANGED <<response, inputVars, semesterPlan, autoplanWarnings, analyzing, dragVars, evalVars>>

\* Variant: the loop condition is passes < 20 alone.
PassBeginIgnoreChanged ==
  /\ pc = "while"
  /\ passes < 20
  /\ changed' = FALSE
  /\ passes' = passes + 1
  /\ i' = Len(toPlace) - 1
  /\ pc' = IF Len(toPlace) - 1 >= 0 THEN "for" ELSE "while"
  /\ UNCHANGED <<response, inputVars, semesterPlan, autoplanWarnings, analyzing, toPlace,
                 placedBySemester, placed, dragVars, evalVars>>

\* while (changed && passes < 20): start of a pass.
PassBegin ==
  /\ pc = "while"
  /\ changed /\ passes < 20
  /\ changed' = FALSE
  /\ passes' = passes + 1
  /\ i' = Len(toPlace) - 1
  /\ pc' = IF Len(toPlace) - 1 >= 0 THEN "for" ELSE "while"
  /\ UNCHANGED <<response, inputVars, semesterPlan, autoplanWarnings, analyzing, toPlace,
                 placedBySemester, placed, dragVars, evalVars>>

\* One iteration of for (let i = toPlace.length - 1; i >= 0; i--).
ForStep ==
  /\ pc = "for"
  /\ i >= 0
  /\ LET code == toPlace[i + 1]
         earliestSem == getEarliestSemester(code, placedBySemester)
         scanned == IF earliestSem = -1 THEN placedBySemester
                    ELSE ScanSemesters(code, earliestSem, placedBySemester)
     IN IF code \in placed
        THEN /\ toPlace' = Splice(toPlace, i)
             /\ UNCHANGED <<placedBySemester, placed, changed>>
        ELSE IF scanned # placedBySemester
             THEN /\ placedBySemester' = scanned
                  /\ placed' = placed \cup {code}
                  /\ toPlace' = Splice(toPlace, i)
                  /\ changed' = TRUE
             ELSE UNCHANGED <<toPlace, placedBySemester, placed, changed>>
  /\ i' = i - 1
  /\ pc' = IF i - 1 >= 0 THEN "for" ELSE "while"
  /\ UNCHANGED <<response, inputVars, semesterPlan, autoplanWarnings, analyzing, passes,
                 dragVars, evalVars>>

\* The loop has ended: the plan is installed and the busy flag cleared.
LocalFinish ==
  /\ pc = "while"
  /\ ~(changed /\ passes < 20)
  /\ semesterPlan' =
       [s \in SemesterIds |->
          placedBySemester[(CHOOSE k \in 1..Len(SEMESTERS) : SEMESTERS[k] = s) - 1]]
  /\ analyzing' = FALSE
  /\ pc' = "returned_local"
  /\ UNCHANGED <<response, inputVars, autoplanWarnings, schedVars, dragVars, evalVars>>

(***************************************************************************)
(* Specification of one auto-plan request                                  *)
(***************************************************************************)

Init ==
  /\ allCourses \in Catalogs
  /\ completedCodes \in SUBSET TakenPool
  /\ inProgressCodes \in SUBSET (TakenPool \ completedCodes)
  /\ balanced \in BOOLEAN
  /\ semesterPlan = EMPTY_PLAN
  /\ autoplanWarnings = <<>>
  /\ analyzing = FALSE
  /\ pc = "idle"
  /\ toPlace = <<>>
  /\ placedBySemester = [k \in SemIdxs |-> <<>>]
  /\ placed = {}
  /\ changed = FALSE
  /\ passes = 0
  /\ i = -1
  /\ draggedCourse = NoDrag
  /\ dragSource = NoDrag
  /\ treeNodes = [n \in NodeIds |-> [type |-> "AND", requirements |-> <<>>]]
  /\ hasPrereqs = "none"
  /\ coursesLoading = FALSE
  /\ aiAnalysis = NoAnalysis
  /\ bestProfessors = TRUE
  /\ response = NoResponse

Next ==
  \/ AutoPlanStart
  \/ LocalBegin
  \/ PassBegin
  \/ ForStep
  \/ LocalFinish

Spec == Init /\ [][Next]_vars

(***************************************************************************)
(* The prerequisite evaluator                                              *)
(***************************************************************************)

\* SEMESTERS.findIndex(s => s.id === semesterId)
SemIndex(semesterId) ==
  IF semesterId \in SemesterIds
  THEN (CHOOSE k \in 1..Len(SEMESTERS) : SEMESTERS[k] = semesterId) - 1
  ELSE -1

\* Variant: the loop also takes the semester itself (i <= semIndex).
RECURSIVE TakenLoopInclusive(_, _, _)
TakenLoopInclusive(k, semIndex, taken) ==
  IF k <= semIndex
  THEN TakenLoopInclusive(k + 1, semIndex,
                          taken \cup Range(semesterPlan[SEMESTERS[k + 1]]))
  ELSE taken

\* for (let i = 0; i < semIndex; i++) semesterPlan[sem.id].forEach(taken.add)
RECURSIVE TakenLoop(_, _, _)
TakenLoop(k, semIndex, taken) ==
  IF k < semIndex
  THEN TakenLoop(k + 1, semIndex, taken \cup Range(semesterPlan[SEMESTERS[k + 1]]))
  ELSE taken

getCoursesBeforeSemester(semesterId) ==
  TakenLoop(0, SemIndex(semesterId), completedCodes \cup inProgressCodes)

IsRef(node) == "ref" \in DOMAIN node

\* The object a requirements entry or a prereqs_structured field denotes.
Deref(node) == IF IsRef(node) THEN treeNodes[node.ref] ELSE node

Bool(b) == IF b THEN "true" ELSE "false"

\* Variant: an AND node asks for one satisfied child only.
RECURSIVE evaluateAndAsSome(_, _, _)
RECURSIVE SomeOfVariant(_, _, _, _)
evaluateAndAsSome(node, takenSet, depth) ==
  IF depth > StackLimit THEN "RangeError"
  ELSE IF node = NoTree THEN "true"
  ELSE LET n == Deref(node)
       IN IF n.type = "COURSE" THEN Bool(n.code \in takenSet)
          ELSE IF n.type \in {"AND", "OR"}
               THEN SomeOfVariant(n.requirements, 1, takenSet, depth)
               ELSE "true"

SomeOfVariant(reqs, k, takenSet, depth) ==
  IF k > Len(reqs) THEN "false"
  ELSE LET r == evaluateAndAsSome(reqs[k], takenSet, depth + 1)
       IN IF r = "false" THEN SomeOfVariant(reqs, k + 1, takenSet, depth) ELSE r

\* evaluatePrereqTree. The outcome is "true", "false", or "RangeError" when
\* the recursion exhausts the call stack; every() stops at the first child
\* that is not satisfied, some() at the first that is, and an exception
\* thrown by a child ends both.
RECURSIVE evaluatePrereqTree(_, _, _)
RECURSIVE EveryOf(_, _, _, _)
RECURSIVE SomeOf(_, _, _, _)
evaluatePrereqTree(node, takenSet, depth) ==
  IF depth > StackLimit THEN "RangeError"
  ELSE IF node = NoTree THEN "true"
  ELSE LET n == Deref(node)
       IN IF n.type = "COURSE" THEN Bool(n.code \in takenSet)
          ELSE IF n.type = "AND" THEN EveryOf(n.requirements, 1, takenSet, depth)
          ELSE IF n.type = "OR" THEN SomeOf(n.requirements, 1, takenSet, depth)
          ELSE "true"

EveryOf(reqs, k, takenSet, depth) ==
  IF k > Len(reqs) THEN "true"
  ELSE LET r == evaluatePrereqTree(reqs[k], takenSet, depth + 1)
       IN IF r = "true" THEN EveryOf(reqs, k + 1, takenSet, depth) ELSE r

\* Variant: an OR node asks for exactly one satisfied child.
SomeOfExactlyOne(reqs, k, takenSet, depth) ==
  Bool(Cardinality({j \in k..Len(reqs) :
         evaluatePrereqTree(reqs[j], takenSet, depth + 1) = "true"}) = 1)

SomeOf(reqs, k, takenSet, depth) ==
  IF k > Len(reqs) THEN "false"
  ELSE LET r == evaluatePrereqTree(reqs[k], takenSet, depth + 1)
       IN IF r = "false" THEN SomeOf(reqs, k + 1, takenSet, depth) ELSE r

\* Variant: a code that is not in the catalog has unmet prerequisites.
prereqsMetUnknownFails(code, semesterId) ==
  IF code \notin DOMAIN allCourses THEN "false"
  ELSE LET info == allCourses[code]
           taken == getCoursesBeforeSemester(semesterId)
       IN IF info.prereqs_structured # NoTree
          THEN evaluatePrereqTree(info.prereqs_structured, taken, 0)
          ELSE Bool(\A q \in info.prereqs : q \in taken)

prereqsMet(code, semesterId) ==
  IF code \notin DOMAIN allCourses THEN "true"
  ELSE LET info == allCourses[code]
           taken == getCoursesBeforeSemester(semesterId)
       IN IF info.prereqs_structured # NoTree
          THEN evaluatePrereqTree(info.prereqs_structured, taken, 0)
          ELSE Bool(\A q \in info.prereqs : q \in taken)

\* The render of a planned course (const hasPrereqs = prereqsMet(code, sem.id)).
CheckPrereqs(code, semesterId) ==
  /\ pc = "idle"
  /\ draggedCourse = NoDrag
  /\ hasPrereqs' = prereqsMet(code, semesterId)
  /\ UNCHANGED <<response, inputVars, semesterPlan, autoplanWarnings, analyzing, pc,
                 schedVars, dragVars, treeNodes, aiAnalysis>>

(***************************************************************************)
(* Specification of the evaluation of a requirement tree                   *)
(***************************************************************************)

\* The catalog holds one course, whose prereqs_structured is node 1.
TreeCatalog ==
  [c \in {TreeCourse} |->
     [prereqs |-> {}, prereqs_structured |-> [ref |-> 1], credits |-> 3,
      difficulty |-> 3, category |-> "cs_core", required |-> TRUE]]

InitTree ==
  /\ allCourses = TreeCatalog
  /\ treeNodes \in [NodeIds -> InnerNodes]
  /\ completedCodes \in SUBSET Codes
  /\ inProgressCodes = {}
  /\ balanced = TRUE
  /\ semesterPlan = [EMPTY_PLAN EXCEPT !["fall1"] = <<TreeCourse>>]
  /\ autoplanWarnings = <<>>
  /\ analyzing = FALSE
  /\ pc = "idle"
  /\ toPlace = <<>>
  /\ placedBySemester = [k \in SemIdxs |-> <<>>]
  /\ placed = {}
  /\ changed = FALSE
  /\ passes = 0
  /\ i = -1
  /\ draggedCourse = NoDrag
  /\ dragSource = NoDrag
  /\ hasPrereqs = "none"
  /\ coursesLoading = FALSE
  /\ aiAnalysis = NoAnalysis
  /\ bestProfessors = TRUE
  /\ response = NoResponse

NextTree == hasPrereqs = "none" /\ CheckPrereqs(TreeCourse, "fall1")

SpecTree == InitTree /\ [][NextTree]_vars

(***************************************************************************)
(* Manual plan edits                                                       *)
(***************************************************************************)

\* Semesters and codes the edits of the model work on, and the longest list
\* a semester is let grow to.
EditSemesters == {"fall1", "spring1", "fall2"}

EditCodes == {"A", "B"}

MaxSlotLen == 2

\* Union of the lists of the plan (allPlannedCourses).
allPlannedCourses == UNION {Range(semesterPlan[s]) : s \in SemesterIds}

\* handleDragStart(e, code, source): from the library, or from the semester
\* that shows the course. One drag is under way at a time, and no click is
\* delivered during it.
HandleDragStart(code, source) ==
  /\ pc = "idle"
  /\ draggedCourse = NoDrag
  /\ IF source = "library" THEN TRUE ELSE Includes(semesterPlan[source], code)
  /\ draggedCourse' = code
  /\ dragSource' = source
  /\ UNCHANGED <<response, inputVars, semesterPlan, autoplanWarnings, analyzing, pc,
                 schedVars, evalVars>>

\* The updater handleDrop passes to setSemesterPlan.
DroppedPlan(prev, code, source, targetSemester) ==
  LET removed == IF source # NoDrag /\ source # "library"
                 THEN [prev EXCEPT ![source] = FilterOut(prev[source], code)]
                 ELSE prev
  IN IF ~Includes(removed[targetSemester], code)
     THEN [removed EXCEPT ![targetSemester] = Append(prev[targetSemester], code)]
     ELSE removed

\* handleDrop(e, targetSemester) with the dragged code in the data transfer.
HandleDrop(targetSemester) ==
  /\ pc = "idle"
  /\ draggedCourse # NoDrag
  /\ Len(semesterPlan[targetSemester]) < MaxSlotLen
  /\ semesterPlan' =
       DroppedPlan(semesterPlan, draggedCourse, dragSource, targetSemester)
  /\ draggedCourse' = NoDrag
  /\ dragSource' = NoDrag
  /\ UNCHANGED <<response, inputVars, autoplanWarnings, analyzing, pc, schedVars, evalVars>>

\* handleDragEnd: the drag ends without a drop.
HandleDragEnd ==
  /\ pc = "idle"
  /\ draggedCourse # NoDrag
  /\ draggedCourse' = NoDrag
  /\ dragSource' = NoDrag
  /\ UNCHANGED <<response, inputVars, semesterPlan, autoplanWarnings, analyzing, pc,
                 schedVars, evalVars>>

\* removeCourse(code, semesterId), the button of a course shown in a semester.
RemoveCourse(code, semesterId) ==
  /\ pc = "idle"
  /\ draggedCourse = NoDrag
  /\ Includes(semesterPlan[semesterId], code)
  /\ semesterPlan' =
       [semesterPlan EXCEPT ![semesterId] = FilterOut(semesterPlan[semesterId], code)]
  /\ UNCHANGED <<response, inputVars, autoplanWarnings, analyzing, pc, schedVars, dragVars,
                 evalVars>>

\* addCourseToSemester(code, semesterId); it returns early for a planned code.
AddCourseToSemester(code, semesterId) ==
  /\ pc = "idle"
  /\ draggedCourse = NoDrag
  /\ code \notin allPlannedCourses
  /\ semesterPlan' =
       [semesterPlan EXCEPT ![semesterId] = Append(semesterPlan[semesterId], code)]
  /\ UNCHANGED <<response, inputVars, autoplanWarnings, analyzing, pc, schedVars, dragVars,
                 evalVars>>

\* A catalog of plain courses without prerequisites.
PlainCatalog ==
  [c \in Codes |->
     [prereqs |-> {}, prereqs_structured |-> NoTree, credits |-> 3,
      difficulty |-> 3, category |-> "cs_core", required |-> TRUE]]

InitEdit ==
  /\ allCourses = PlainCatalog
  /\ completedCodes \in SUBSET {"C"}
  /\ inProgressCodes \in SUBSET ({"C"} \ completedCodes)
  /\ balanced = TRUE
  /\ semesterPlan = EMPTY_PLAN
  /\ autoplanWarnings = <<>>
  /\ analyzing = FALSE
  /\ pc = "idle"
  /\ toPlace = <<>>
  /\ placedBySemester = [k \in SemIdxs |-> <<>>]
  /\ placed = {}
  /\ changed = FALSE
  /\ passes = 0
  /\ i = -1
  /\ draggedCourse = NoDrag
  /\ dragSource = NoDrag
  /\ treeNodes = [n \in NodeIds |-> [type |-> "AND", requirements |-> <<>>]]
  /\ hasPrereqs = "none"
  /\ coursesLoading = FALSE
  /\ aiAnalysis = NoAnalysis
  /\ bestProfessors = TRUE
  /\ response = NoResponse

NextEdit ==
  \/ \E code \in EditCodes, source \in {"library"} \cup EditSemesters :
       HandleDragStart(code, source)
  \/ \E targetSemester \in EditSemesters : HandleDrop(targetSemester)
  \/ HandleDragEnd
  \/ \E code \in EditCodes, semesterId \in EditSemesters :
       RemoveCourse(code, semesterId)
  \/ \E code \in EditCodes, semesterId \in EditSemesters :
       AddCourseToSemester(code, semesterId)

SpecEdit == InitEdit /\ [][NextEdit]_vars

(***************************************************************************)
(* Properties of the plan built by generateLocalSchedule                   *)
(***************************************************************************)

\* The positions (index, place in the list) a plan given as index -> list has.
Positions(pbs) ==
  UNION {{<<k, j>> : j \in 1..Len(pbs[k])} : k \in SemIdxs}

\* No code occupies two positions of the plan.
NoDuplicates(pbs) ==
  \A x \in Positions(pbs), y \in Positions(pbs) :
    pbs[x[1]][x[2]] = pbs[y[1]][y[2]] => x = y

PlacedCodes(pbs) == UNION {Range(pbs[k]) : k \in SemIdxs}

\* semesterPlan as index -> list.
PlanByIndex == [k \in SemIdxs |-> semesterPlan[SEMESTERS[k + 1]]]

Returned == pc = "returned_local"

Candidates == Range(BuildToPlace(CatalogOrder))

UntakenPrereqs(code) == allCourses[code].prereqs \ alreadyTaken

\* C1: the plan of the local scheduler holds each course code in at most one
\* semester, and at most once in it. It holds of the plan under construction
\* at every step and of the plan that is installed.
C1_NoDuplicatePlacement ==
  /\ NoDuplicates(placedBySemester)
  /\ Returned => NoDuplicates(PlanByIndex)

\* A returned plan with two courses in the first semester and one in the second.
C1_Witness ==
  /\ Returned
  /\ Len(semesterPlan["fall1"]) = 2
  /\ Len(semesterPlan["spring1"]) = 1

\* C2: the credits of every semester of the plan (a missing or zero credit
\* value counted as 3) sum to at most 15 in balanced mode and 18 otherwise.
C2_CreditCap ==
  \A k \in SemIdxs :
    /\ SumCredits(placedBySemester[k]) <= (IF balanced THEN 15 ELSE 18)
    /\ Returned =>
         SumCredits(semesterPlan[SEMESTERS[k + 1]]) <= (IF balanced THEN 15 ELSE 18)

\* A returned plan where the cap alone moved a course: it has no untaken
\* prerequisite, yet sits in the second semester, because the first semester
\* plus this course would be more than 18 credits.
C2_Witness ==
  /\ Returned /\ ~balanced
  /\ \E c \in Range(placedBySemester[1]) :
       /\ UntakenPrereqs(c) = {}
       /\ SumCredits(placedBySemester[0]) + CreditsOf(c) > 18

\* C3: every code of the flat prerequisite list of a placed course is
\* completed or in progress, or is placed in a semester of strictly smaller
\* index.
C3_PrereqOrdering ==
  \A k \in SemIdxs : \A c \in Range(placedBySemester[k]) :
    \A p \in allCourses[c].prereqs :
      \/ p \in completedCodes \cup inProgressCodes
      \/ \E j \in SemIdxs : j < k /\ Includes(placedBySemester[j], p)

\* A returned plan with a course in the third semester whose two untaken
\* prerequisites sit in the first and in the second semester.
C3_Witness ==
  /\ Returned
  /\ \E c \in Range(semesterPlan["fall2"]) :
       \E p \in UntakenPrereqs(c), q \in UntakenPrereqs(c) :
         /\ Includes(semesterPlan["fall1"], p)
         /\ Includes(semesterPlan["spring1"], q)

\* Catalog courses not taken, and the prerequisite edges among them.
Untaken == Codes \ alreadyTaken

RECURSIVE ReachableFrom(_)
ReachableFrom(S) ==
  LET more == S \cup {p \in Untaken : \E c \in S : p \in allCourses[c].prereqs}
  IN IF more = S THEN S ELSE ReachableFrom(more)

OnCycle(code) ==
  /\ code \in Untaken
  /\ code \in ReachableFrom({p \in Untaken : p \in allCourses[code].prereqs})

HasCycle == \E c \in Codes : OnCycle(c)

\* The run has not stopped before the plan is returned.
RunsToReturn == Returned \/ ENABLED Next

\* C4 as stated: with a cycle among untaken courses the scheduler ends within
\* 20 passes, places no course of the cycle and places every other candidate.
C4_AsStated ==
  HasCycle =>
    /\ passes <= 20
    /\ RunsToReturn
    /\ \A c \in Codes : OnCycle(c) => c \notin PlacedCodes(placedBySemester)
    /\ Returned =>
         \A c \in Candidates : ~OnCycle(c) => c \in PlacedCodes(placedBySemester)

\* No semester from the earliest eligible one on admits the course.
NoSemesterAdmits(code, pbs) ==
  /\ getEarliestSemester(code, pbs) # -1
  /\ ScanSemesters(code, getEarliestSemester(code, pbs), pbs) = pbs

\* C4 amended: with a cycle among untaken courses the scheduler ends within
\* 20 passes and places no course of the cycle; a candidate off the cycle is
\* left unplaced only if one of its untaken prerequisites is unplaced or no
\* semester from its earliest eligible one on admits it.
C4_CycleNeverPlaced ==
  HasCycle =>
    /\ passes <= 20
    /\ RunsToReturn
    /\ \A c \in Codes : OnCycle(c) => c \notin PlacedCodes(placedBySemester)
    /\ Returned =>
         \A c \in Candidates :
           (~OnCycle(c) /\ c \notin PlacedCodes(placedBySemester)) =>
             \/ getEarliestSemester(c, placedBySemester) = -1
             \/ NoSemesterAdmits(c, placedBySemester)

\* A returned plan for a catalog where A and B require each other, both are
\* candidates, and the third candidate is placed.
C4_Witness ==
  /\ Returned
  /\ "B" \in allCourses["A"].prereqs /\ "A" \in allCourses["B"].prereqs
  /\ {"A", "B", "C"} \subseteq Candidates
  /\ PlacedCodes(placedBySemester) = {"C"}

\* C5: when the plan is returned, every candidate left unplaced is named by a
\* warning, and the plan of the placed courses is installed.
C5_UnplacedWarned ==
  Returned =>
    /\ PlanByIndex = placedBySemester
    /\ \A c \in Candidates :
         c \notin PlacedCodes(placedBySemester) => Includes(autoplanWarnings, c)

\* C10: in balanced mode every semester of the plan holds at most 2 courses
\* of difficulty 4 or more (a missing difficulty counted as 3).
C10_HardCourseCap ==
  balanced =>
    \A k \in SemIdxs :
      /\ HardCount(placedBySemester[k]) <= 2
      /\ Returned => HardCount(semesterPlan[SEMESTERS[k + 1]]) <= 2

\* A returned balanced plan whose first semester holds two hard courses and
\* whose second holds a hard course that has no untaken prerequisite and
\* whose credits the first semester had room for.
C10_Witness ==
  /\ Returned /\ balanced
  /\ HardCount(placedBySemester[0]) = 2
  /\ \E c \in Range(placedBySemester[1]) :
       /\ DifficultyOf(c) >= 4
       /\ UntakenPrereqs(c) = {}
       /\ SumCredits(placedBySemester[0]) + CreditsOf(c) <= 15

(***************************************************************************)
(* Properties of the prerequisite evaluator                                *)
(***************************************************************************)

\* Node ids a node refers to directly, and all node ids reachable from a set.
ChildRefs(n) ==
  {treeNodes[n].requirements[k].ref :
     k \in {j \in 1..Len(treeNodes[n].requirements) :
              IsRef(treeNodes[n].requirements[j])}}

RECURSIVE RefClosure(_)
RefClosure(S) ==
  LET more == S \cup UNION {ChildRefs(n) : n \in S}
  IN IF more = S THEN S ELSE RefClosure(more)

\* The tree under node 1 refers to none of its own nodes.
Acyclic == \A n \in RefClosure({1}) : n \notin RefClosure(ChildRefs(n))

\* The boolean value of a tree as the data model defines it.
RECURSIVE TreeValue(_, _)
TreeValue(node, takenSet) ==
  LET n == Deref(node)
  IN CASE n.type = "COURSE" -> n.code \in takenSet
       [] n.type = "AND" ->
            \A k \in 1..Len(n.requirements) : TreeValue(n.requirements[k], takenSet)
       [] n.type = "OR" ->
            \E k \in 1..Len(n.requirements) : TreeValue(n.requirements[k], takenSet)

\* The tree OR(AND(A, B), C).
ExampleTree ==
  (1 :> [type |-> "OR",
         requirements |-> <<[ref |-> 2], [type |-> "COURSE", code |-> "C"]>>]) @@
  (2 :> [type |-> "AND",
         requirements |-> <<[type |-> "COURSE", code |-> "A"],
                            [type |-> "COURSE", code |-> "B"]>>])

\* C6: on a finite acyclic tree evaluatePrereqTree returns the boolean value
\* of the tree (leaf: code in the taken-set; AND: every child; OR: some
\* child); for OR(AND(A, B), C) that is true for {C}, false for {A} and true
\* for {A, B}.
C6_TreeEvaluation ==
  (hasPrereqs # "none" /\ Acyclic) =>
    /\ hasPrereqs = Bool(TreeValue([ref |-> 1], completedCodes \cup inProgressCodes))
    /\ treeNodes = ExampleTree =>
         /\ completedCodes = {"C"} => hasPrereqs = "true"
         /\ completedCodes = {"A"} => hasPrereqs = "false"
         /\ completedCodes = {"A", "B"} => hasPrereqs = "true"

\* OR(AND(A, B), C) has been evaluated to true for the taken-set {A, B}.
C6_Witness ==
  /\ treeNodes = ExampleTree
  /\ completedCodes = {"A", "B"}
  /\ hasPrereqs = "true"

\* The value of a tree when a node met again on the way down from the root
\* counts as unsatisfied.
RECURSIVE FailClosedValue(_, _, _)
FailClosedValue(node, takenSet, visited) ==
  IF IsRef(node) /\ node.ref \in visited THEN FALSE
  ELSE LET n == Deref(node)
           seen == IF IsRef(node) THEN visited \cup {node.ref} ELSE visited
       IN CASE n.type = "COURSE" -> n.code \in takenSet
            [] n.type = "AND" ->
                 \A k \in 1..Len(n.requirements) :
                   FailClosedValue(n.requirements[k], takenSet, seen)
            [] n.type = "OR" ->
                 \E k \in 1..Len(n.requirements) :
                   FailClosedValue(n.requirements[k], takenSet, seen)

\* C8: the evaluation of a tree that refers to one of its own nodes ends
\* without an exception, with the revisited node counted as unsatisfied.
C8_CyclicTreeFailsClosed ==
  (hasPrereqs # "none" /\ ~Acyclic) =>
    /\ hasPrereqs # "RangeError"
    /\ hasPrereqs =
         Bool(FailClosedValue([ref |-> 1], completedCodes \cup inProgressCodes, {}))

\* C7: the taken-set prereqsMet uses for a semester is completed, in progress
\* and the courses of the semesters of strictly smaller index, and no more.
C7_TakenSet ==
  \A s \in SemesterIds :
    getCoursesBeforeSemester(s) =
      completedCodes \cup inProgressCodes \cup
        UNION {Range(semesterPlan[t]) :
                 t \in {u \in SemesterIds : SemIndex(u) < SemIndex(s)}}

\* C is in progress, A is planned in the first semester and B in the second:
\* the taken-set of the second semester is {A, C}, without B.
C7_Witness ==
  /\ inProgressCodes = {"C"}
  /\ semesterPlan["fall1"] = <<"A">>
  /\ semesterPlan["spring1"] = <<"B">>
  /\ getCoursesBeforeSemester("spring1") = {"A", "C"}

(***************************************************************************)
(* Properties of the manual plan edits                                     *)
(***************************************************************************)

\* C9: after any sequence of manual edits from the empty plan no course code
\* is listed by more than one semester.
C9_NoCourseInTwoSlots ==
  \A c \in allPlannedCourses :
    Cardinality({s \in SemesterIds : Includes(semesterPlan[s], c)}) <= 1

(***************************************************************************)
(* Which courses the scheduler places, and where                           *)
(***************************************************************************)

\* C11: every course of the plan under construction and of the installed plan
\* is a catalog course that is neither completed nor in progress and that is
\* flagged required or has one of the categories cs_core, math_core,
\* math_discrete, stats, science.
C11_OnlyMandatoryPlaced ==
  \A c \in PlacedCodes(placedBySemester) \cup
           (IF Returned THEN PlacedCodes(PlanByIndex) ELSE {}) :
    /\ c \in Codes
    /\ c \notin completedCodes \cup inProgressCodes
    /\ \/ allCourses[c].required
       \/ allCourses[c].category \in
            {"cs_core", "math_core", "math_discrete", "stats", "science"}

\* A returned plan that holds a required elective and a science course that is
\* not flagged required, while an untaken elective that is not required and has
\* no prerequisite stays out of it.
C11_Witness ==
  /\ Returned
  /\ \E c \in PlacedCodes(PlanByIndex) :
       allCourses[c].category = "cs_elective" /\ allCourses[c].required
  /\ \E c \in PlacedCodes(PlanByIndex) :
       allCourses[c].category = "science" /\ ~allCourses[c].required
  /\ \E c \in Codes \ alreadyTaken :
       /\ allCourses[c].category = "cs_elective" /\ ~allCourses[c].required
       /\ allCourses[c].prereqs = {}
       /\ c \notin PlacedCodes(PlanByIndex)

\* C20: when a step of the for loop places a course in the semester of index s,
\* the course has an earliest semester e <= s, and every semester t with
\* e <= t < s was closed to it at that moment: its credits plus the course's
\* exceed the cap, or (balanced mode, course of difficulty >= 4) it already
\* held 2 courses of difficulty >= 4.
C20_FirstAdmissibleSemester ==
  [][\A s \in SemIdxs :
       (pc = "for" /\ Len(placedBySemester'[s]) > Len(placedBySemester[s])) =>
         LET code == placedBySemester'[s][Len(placedBySemester'[s])]
             e == getEarliestSemester(code, placedBySemester)
         IN /\ e # -1 /\ e <= s
            /\ \A t \in e..(s - 1) :
                 \/ SumCredits(placedBySemester[t]) + CreditsOf(code) >
                      (IF balanced THEN 15 ELSE 18)
                 \/ /\ balanced /\ DifficultyOf(code) >= 4
                    /\ HardCount(placedBySemester[t]) >= 2]_vars

\* A plan where the scan started after the first semester and passed over a
\* semester: the course has an untaken prerequisite, so its earliest semester
\* is 1 or later, and it sits in a semester after its earliest one.
C20_Witness ==
  \E s \in SemIdxs : \E c \in Range(placedBySemester[s]) :
    /\ getEarliestSemester(c, placedBySemester) >= 1
    /\ getEarliestSemester(c, placedBySemester) < s

(***************************************************************************)
(* The completed set changes under a fixed plan                            *)
(***************************************************************************)

\* handleUpload on a response that is ok: setResult(data.data), from which
\* completedCodes and inProgressCodes are recomputed.
SetResult(completed, in_progress) ==
  /\ pc = "idle"
  /\ draggedCourse = NoDrag
  /\ completedCodes' = completed
  /\ inProgressCodes' = in_progress
  /\ UNCHANGED <<response, allCourses, balanced, bestProfessors, coursesLoading,
                 semesterPlan, autoplanWarnings, analyzing, pc, schedVars,
                 dragVars, evalVars>>

FlatCourse == "A"

\* The course with a requirement tree and a course with a flat list.
ResultCatalog ==
  [c \in {TreeCourse, FlatCourse} |->
     IF c = TreeCourse THEN TreeCatalog[TreeCourse]
     ELSE [prereqs |-> {"B", "C"}, prereqs_structured |-> NoTree, credits |-> 3,
           difficulty |-> 3, category |-> "cs_core", required |-> TRUE]]

InitResult ==
  /\ allCourses = ResultCatalog
  /\ treeNodes \in [NodeIds -> InnerNodes]
  /\ completedCodes = {}
  /\ inProgressCodes = {}
  /\ balanced = TRUE
  /\ semesterPlan = [EMPTY_PLAN EXCEPT !["fall1"] = <<"B">>,
                                       !["spring1"] = <<TreeCourse, FlatCourse>>]
  /\ autoplanWarnings = <<>>
  /\ analyzing = FALSE
  /\ pc = "idle"
  /\ toPlace = <<>>
  /\ placedBySemester = [k \in SemIdxs |-> <<>>]
  /\ placed = {}
  /\ changed = FALSE
  /\ passes = 0
  /\ i = -1
  /\ draggedCourse = NoDrag
  /\ dragSource = NoDrag
  /\ hasPrereqs = "none"
  /\ coursesLoading = FALSE
  /\ aiAnalysis = NoAnalysis
  /\ bestProfessors = TRUE
  /\ response = NoResponse

NextResult == \E completed \in SUBSET Codes : SetResult(completed, {})

SpecResult == InitResult /\ [][NextResult]_vars

\* C12: across every step that enlarges the completed set and leaves the plan,
\* the in-progress set and the catalog as they are, a check that was satisfied
\* stays satisfied, for every course (with a requirement tree free of reference
\* cycles, as the data model has it, with a flat list, or unknown) and for a
\* semester with and without planned courses before it.
C12_CompletedMonotone ==
  [][(/\ Acyclic
      /\ completedCodes \subseteq completedCodes'
      /\ completedCodes # completedCodes'
      /\ inProgressCodes' = inProgressCodes
      /\ semesterPlan' = semesterPlan) =>
       \A code \in DOMAIN allCourses \cup {UnknownCode} :
         \A sem \in {"fall1", "spring1"} :
           prereqsMet(code, sem) = "true" => prereqsMet(code, sem)' = "true"]_vars

\* The tree is OR(AND(A, B), C) and the flat list is {B, C}. Nothing is
\* completed at first, so both checks fail; an upload has made all three
\* courses completed and both checks are satisfied.
C12_Witness ==
  /\ treeNodes = ExampleTree
  /\ completedCodes = Codes
  /\ prereqsMet(TreeCourse, "fall1") = "true"
  /\ prereqsMet(FlatCourse, "fall1") = "true"

(***************************************************************************)
(* loadCourses, then an auto-plan request                                  *)
(***************************************************************************)

\* A course of the /courses response: its credits (0 stands for a missing or
\* zero value) and whether required_for includes 'cs_major'.
RawCourses == [credits : {-1, 0, 16}, cs_major : BOOLEAN]

\* The responses: the courses they hold, keyed by code.
CourseResponses == UNION {[D -> RawCourses] : D \in SUBSET {"A", "B"}}

\* x || 3
OrThree(x) == IF x = 0 THEN 3 ELSE x

\* The catalog entry loadCourses builds for a course of the response.
LoadedCourse(course) ==
  [prereqs |-> {}, prereqs_structured |-> NoTree,
   credits |-> OrThree(course.credits), difficulty |-> OrThree(0),
   category |-> "", required |-> course.cs_major]

\* loadCourses on a response that is ok: the entries are merged over the
\* catalog when there is at least one.
LoadCourses(courses) ==
  /\ coursesLoading
  /\ pc = "idle"
  /\ allCourses' =
       IF DOMAIN courses # {}
       THEN [c \in DOMAIN allCourses \cup DOMAIN courses |->
               IF c \in DOMAIN courses THEN LoadedCourse(courses[c])
               ELSE allCourses[c]]
       ELSE allCourses
  /\ coursesLoading' = FALSE
  /\ UNCHANGED <<response, completedCodes, inProgressCodes, balanced, bestProfessors,
                 semesterPlan, autoplanWarnings, analyzing, pc, schedVars,
                 dragVars, evalVars>>

\* loadCourses when the fetch throws or the response is not ok.
LoadCoursesFailed ==
  /\ coursesLoading
  /\ pc = "idle"
  /\ coursesLoading' = FALSE
  /\ UNCHANGED <<response, allCourses, completedCodes, inProgressCodes, balanced,
                 bestProfessors, semesterPlan, autoplanWarnings, analyzing, pc,
                 schedVars, dragVars, evalVars>>

InitLoad ==
  /\ allCourses = PlainCatalog
  /\ coursesLoading = TRUE
  /\ completedCodes \in SUBSET TakenPool
  /\ inProgressCodes \in SUBSET (TakenPool \ completedCodes)
  /\ balanced \in BOOLEAN
  /\ semesterPlan = EMPTY_PLAN
  /\ autoplanWarnings = <<>>
  /\ analyzing = FALSE
  /\ pc = "idle"
  /\ toPlace = <<>>
  /\ placedBySemester = [k \in SemIdxs |-> <<>>]
  /\ placed = {}
  /\ changed = FALSE
  /\ passes = 0
  /\ i = -1
  /\ draggedCourse = NoDrag
  /\ dragSource = NoDrag
  /\ treeNodes = [n \in NodeIds |-> [type |-> "AND", requirements |-> <<>>]]
  /\ hasPrereqs = "none"
  /\ aiAnalysis = NoAnalysis
  /\ bestProfessors = TRUE
  /\ response = NoResponse

NextLoad ==
  \/ \E courses \in CourseResponses : LoadCourses(courses)
  \/ LoadCoursesFailed
  \/ AutoPlanStart
  \/ LocalBegin
  \/ PassBegin
  \/ ForStep
  \/ LocalFinish

SpecLoad == InitLoad /\ [][NextLoad]_vars

\* C13: a catalog that holds a course with negative or zero credits is
\* rejected at the entry of plan generation: no course is placed in the plan
\* under construction and none is installed.
C13_MalformedInputRejected ==
  (\E c \in DOMAIN allCourses : allCourses[c].credits <= 0) =>
    /\ PlacedCodes(placedBySemester) = {}
    /\ PlacedCodes(PlanByIndex) = {}

(***************************************************************************)
(* degreeProgress                                                          *)
(***************************************************************************)

\* The lists of DEGREE_REQUIREMENTS that degreeProgress reads.
DEGREE_REQUIREMENTS ==
  [cs_core |-> [required |-> <<"CS 1114", "CS 2114", "CS 2505", "CS 2506",
                               "CS 3114", "CS 3214">>],
   math_core |-> [required |-> <<"MATH 1225", "MATH 1226", "MATH 2114">>],
   stats |-> [from |-> <<"STAT 3006", "STAT 4705", "STAT 4714">>],
   science |-> [required |-> <<"PHYS 2305", "PHYS 2306">>],
   capstone |-> [from |-> <<"CS 4624", "CS 4644", "CS 4974">>]]

\* Entries of DEFAULT_COURSES, in the order of the object's keys.
ProgressOrder ==
  <<"CS 1114", "CS 3114", "CS 4104", "CS 4114", "CS 4254", "CS 4624", "CS 4644",
    "MATH 1225", "STAT 3006", "PHYS 2305">>

ProgressCatalog ==
  LET entry(cr, cat, diff, req, pre) ==
        [prereqs |-> pre, prereqs_structured |-> NoTree, credits |-> cr,
         difficulty |-> diff, category |-> cat, required |-> req]
  IN ("CS 1114" :> entry(3, "cs_core", 2, TRUE, {})) @@
     ("CS 3114" :> entry(3, "cs_core", 4, TRUE, {"CS 2114", "CS 2505"})) @@
     ("CS 4104" :> entry(3, "cs_core", 4, TRUE, {"CS 3114", "MATH 2114"})) @@
     ("CS 4114" :> entry(3, "cs_elective", 4, FALSE, {"CS 3214"})) @@
     ("CS 4254" :> entry(3, "cs_elective", 3, FALSE, {"CS 3214"})) @@
     ("CS 4624" :> entry(3, "cs_elective", 2, FALSE, {"CS 3114"})) @@
     ("CS 4644" :> entry(3, "cs_elective", 2, FALSE, {"CS 2114"})) @@
     ("MATH 1225" :> entry(3, "math", 3, TRUE, {})) @@
     ("STAT 3006" :> entry(3, "math", 2, TRUE, {"MATH 1226"})) @@
     ("PHYS 2305" :> entry(4, "science", 3, TRUE, {"MATH 1225"}))

\* code.startsWith('CS') and parseInt(code.split(' ')[1]) of the catalog codes.
StartsWithCS(code) ==
  code \in {"CS 1114", "CS 3114", "CS 4104", "CS 4114", "CS 4254", "CS 4624",
            "CS 4644"}

CourseNumber(code) ==
  CASE code = "CS 1114" -> 1114
    [] code = "CS 3114" -> 3114
    [] code = "CS 4104" -> 4104
    [] code = "CS 4114" -> 4114
    [] code = "CS 4254" -> 4254
    [] code = "CS 4624" -> 4624
    [] code = "CS 4644" -> 4644
    [] code = "MATH 1225" -> 1225
    [] code = "STAT 3006" -> 3006
    [] code = "PHYS 2305" -> 2305

\* list.filter(keep), for a test given as the set of the codes that pass it.
RECURSIVE Filter(_, _)
Filter(list, keep) ==
  IF list = <<>> THEN <<>>
  ELSE (IF Head(list) \in keep THEN <<Head(list)>> ELSE <<>>)
       \o Filter(Tail(list), keep)

\* Variant: Math.min gives its second argument.
MathMinSecond(a, b) == b

\* Variant: Math.min gives its first argument.
MathMinFirst(a, b) == a

\* Math.min(a, b)
MathMin(a, b) == IF a <= b THEN a ELSE b

\* Math.round(num / den) for den > 0: the nearest integer, a half going up.
MathRound(num, den) == (2 * num + den) \div (2 * den)

\* [...set].reduce((sum, c) => sum + (allCourses[c]?.credits || 3), 0)
RECURSIVE SumCreditsOfSet(_)
SumCreditsOfSet(S) ==
  IF S = {} THEN 0
  ELSE LET c == CHOOSE x \in S : TRUE
       IN CreditsOf(c) + SumCreditsOfSet(S \ {c})

\* const plannedCredits = [...planned].reduce(...)
plannedCredits == SumCreditsOfSet(allPlannedCourses)

\* The value of the degreeProgress memo in the current state.
degreeProgress ==
  LET completed == completedCodes
      planned == allPlannedCourses
      onlyPlanned == planned \ completed
      has4104 == IF "CS 4104" \in completed THEN 1 ELSE 0
      plans4104 == IF "CS 4104" \in onlyPlanned THEN 1 ELSE 0
      csCore == DEGREE_REQUIREMENTS.cs_core.required
      csCoreCompleted == Filter(csCore, completed)
      csCorePlanned == Filter(csCore, onlyPlanned)
      systemsOptions == <<"CS 4114", "CS 4254", "CS 4284">>
      systemsCompleted == Filter(systemsOptions, completed)
      systemsPlanned == Filter(systemsOptions, onlyPlanned)
      mathCore == DEGREE_REQUIREMENTS.math_core.required
      mathCompleted == Filter(mathCore, completed)
      mathPlanned == Filter(mathCore, onlyPlanned)
      statsOptions == DEGREE_REQUIREMENTS.stats.from
      statsCompleted == Filter(statsOptions, completed)
      statsPlanned == Filter(statsOptions, onlyPlanned)
      scienceReq == DEGREE_REQUIREMENTS.science.required
      scienceCompleted == Filter(scienceReq, completed)
      sciencePlanned == Filter(scienceReq, onlyPlanned)
      csElectives ==
        Filter(ProgressOrder,
               {code \in DOMAIN allCourses :
                  \/ allCourses[code].category = "cs_elective"
                  \/ StartsWithCS(code) /\ CourseNumber(code) >= 3000})
      csElecCompleted == Filter(csElectives, completed)
      csElecPlanned == Filter(csElectives, onlyPlanned)
      capstoneOptions == DEGREE_REQUIREMENTS.capstone.from
      capstoneCompleted == Filter(capstoneOptions, completed)
      capstonePlanned == Filter(capstoneOptions, onlyPlanned)
      totalRequired ==
        Len(csCore) + 2 + Len(mathCore) + 1 + Len(scienceReq) + 3 + 1
      totalCompleted ==
        Len(csCoreCompleted)
        + (has4104 + MathMin(1, Len(systemsCompleted)))
        + Len(mathCompleted)
        + MathMin(1, Len(statsCompleted))
        + Len(scienceCompleted)
        + MathMin(3, Len(csElecCompleted))
        + MathMin(1, Len(capstoneCompleted))
      totalPlanned ==
        Len(csCorePlanned)
        + (plans4104 + (IF Len(systemsCompleted) = 0
                        THEN MathMin(1, Len(systemsPlanned)) ELSE 0))
        + Len(mathPlanned)
        + (IF Len(statsCompleted) = 0 THEN MathMin(1, Len(statsPlanned)) ELSE 0)
        + Len(sciencePlanned)
        + MathMin(3 - Len(csElecCompleted), Len(csElecPlanned))
        + (IF Len(capstoneCompleted) = 0
           THEN MathMin(1, Len(capstonePlanned)) ELSE 0)
      completedCredits == SumCreditsOfSet(completed)
  IN [categories |->
        [cs_core |->
           [completed |-> csCoreCompleted, planned |-> csCorePlanned,
            percent |-> MathRound(Len(csCoreCompleted) * 100, Len(csCore)),
            percentWithPlanned |->
              MathRound((Len(csCoreCompleted) + Len(csCorePlanned)) * 100,
                        Len(csCore))],
         cs_systems |->
           [completed |-> systemsCompleted, planned |-> systemsPlanned,
            percent |->
              MathRound((has4104 + MathMin(1, Len(systemsCompleted))) * 100, 2)],
         math_core |->
           [completed |-> mathCompleted, planned |-> mathPlanned,
            percent |-> MathRound(Len(mathCompleted) * 100, Len(mathCore))],
         stats |->
           [completed |-> statsCompleted, planned |-> statsPlanned,
            percent |-> IF Len(statsCompleted) > 0 THEN 100 ELSE 0],
         science |->
           [completed |-> scienceCompleted, planned |-> sciencePlanned,
            percent |-> MathRound(Len(scienceCompleted) * 100, Len(scienceReq))],
         cs_electives |->
           [completed |-> csElecCompleted, planned |-> csElecPlanned,
            percent |-> MathRound(MathMin(3, Len(csElecCompleted)) * 100, 3)],
         capstone |->
           [completed |-> capstoneCompleted, planned |-> capstonePlanned,
            percent |-> IF Len(capstoneCompleted) > 0 THEN 100 ELSE 0]],
      overall |->
        [percent |-> MathRound(totalCompleted * 100, totalRequired),
         percentWithPlanned |->
           MathRound((totalCompleted + totalPlanned) * 100, totalRequired),
         completedCourses |-> totalCompleted,
         plannedCourses |-> totalPlanned,
         totalRequired |-> totalRequired,
         completedCredits |-> completedCredits,
         plannedCredits |-> plannedCredits,
         totalCredits |-> 120,
         remainingCredits |-> Max({0, 120 - completedCredits - plannedCredits})]]

\* The courses a student of this session has completed or plans by hand.
ProgressPool ==
  {"CS 1114", "CS 3114", "CS 4104", "CS 4114", "CS 4254", "CS 4624", "CS 4644",
   "MATH 1225", "STAT 3006", "STAT 4705", "PHYS 2305"}

PlanPool == {"CS 4114", "PHYS 2305"}

InitProgress ==
  /\ allCourses = ProgressCatalog
  /\ completedCodes \in SUBSET ProgressPool
  /\ inProgressCodes = {}
  /\ balanced = TRUE
  /\ semesterPlan = EMPTY_PLAN
  /\ autoplanWarnings = <<>>
  /\ analyzing = FALSE
  /\ pc = "idle"
  /\ toPlace = <<>>
  /\ placedBySemester = [k \in SemIdxs |-> <<>>]
  /\ placed = {}
  /\ changed = FALSE
  /\ passes = 0
  /\ i = -1
  /\ draggedCourse = NoDrag
  /\ dragSource = NoDrag
  /\ treeNodes = [n \in NodeIds |-> [type |-> "AND", requirements |-> <<>>]]
  /\ hasPrereqs = "none"
  /\ coursesLoading = FALSE
  /\ aiAnalysis = NoAnalysis
  /\ bestProfessors = TRUE
  /\ response = NoResponse

\* The plan is edited by hand; the button that adds the selected course is
\* shown only for a course that is neither completed nor planned.
NextProgress ==
  \/ \E code \in PlanPool : HandleDragStart(code, "library")
  \/ HandleDrop("fall1")
  \/ HandleDragEnd
  \/ \E code \in PlanPool : RemoveCourse(code, "fall1")
  \/ \E code \in PlanPool :
       code \notin completedCodes /\ AddCourseToSemester(code, "fall1")

SpecProgress == InitProgress /\ [][NextProgress]_vars

\* The categories of the report.
ProgressCategories ==
  {"cs_core", "cs_systems", "math_core", "stats", "science", "cs_electives",
   "capstone"}

\* C14: the percent of every category of the progress report and the overall
\* percent are integers from 0 to 100, for every completed set and plan.
C14_PercentInRange ==
  LET report == degreeProgress
  IN /\ \A cat \in ProgressCategories :
          report.categories[cat].percent \in 0..100
     /\ report.overall.percent \in 0..100

\* One of six core courses is completed (16.67 rounds to 17), four courses
\* count as CS electives, and a course is planned.
C14_Witness ==
  LET report == degreeProgress
  IN /\ report.categories.cs_core.percent = 17
     /\ Len(report.categories.cs_electives.completed) = 4
     /\ report.categories.cs_electives.percent = 100
     /\ report.overall.percent \in 1..99
     /\ allPlannedCourses # {}

\* The pools of the choose-N categories, and how many of a pool are completed.
StatsPool == {"STAT 3006", "STAT 4705", "STAT 4714"}

CapstonePool == {"CS 4624", "CS 4644", "CS 4974"}

SystemsPool == {"CS 4114", "CS 4254", "CS 4284"}

ElectivePool ==
  {c \in DOMAIN allCourses :
     allCourses[c].category = "cs_elective" \/ (StartsWithCS(c) /\ CourseNumber(c) >= 3000)}

Done(pool) == Cardinality(pool \cap completedCodes)

\* The overall completed count when every choose-N pool adds min(done, N).
CappedTotal ==
  Done({"CS 1114", "CS 2114", "CS 2505", "CS 2506", "CS 3114", "CS 3214"})
  + Done({"CS 4104"})
  + Done({"MATH 1225", "MATH 1226", "MATH 2114"})
  + Done({"PHYS 2305", "PHYS 2306"})
  + (IF Done(StatsPool) < 1 THEN Done(StatsPool) ELSE 1)
  + (IF Done(CapstonePool) < 1 THEN Done(CapstonePool) ELSE 1)
  + (IF Done(SystemsPool) < 1 THEN Done(SystemsPool) ELSE 1)
  + (IF Done(ElectivePool) < 3 THEN Done(ElectivePool) ELSE 3)

\* The claim as stated: every choose-N pool adds min(done, N) to the overall
\* completed count, and with more than N of its courses completed its category
\* reports 100% (N = 1 for statistics, capstone and the systems elective, 3 for
\* CS electives).
C15_AsStated ==
  LET report == degreeProgress
  IN /\ report.overall.completedCourses = CappedTotal
     /\ Done(StatsPool) > 1 => report.categories.stats.percent = 100
     /\ Done(CapstonePool) > 1 => report.categories.capstone.percent = 100
     /\ Done(ElectivePool) > 3 => report.categories.cs_electives.percent = 100
     /\ Done(SystemsPool) > 1 => report.categories.cs_systems.percent = 100

\* C15: every choose-N pool adds min(done, N) to the overall completed count
\* and enters its category's percentage as min(done, N): statistics, capstone
\* and CS electives report 100% with N or more completed, and the systems
\* elective is one half of its category, the other half being CS 4104, so that
\* the category reports 100% with CS 4104 completed and 50% without it.
C15_ChooseNCap ==
  LET report == degreeProgress
  IN /\ report.overall.completedCourses = CappedTotal
     /\ report.categories.stats.percent =
          (IF Done(StatsPool) >= 1 THEN 100 ELSE 0)
     /\ report.categories.capstone.percent =
          (IF Done(CapstonePool) >= 1 THEN 100 ELSE 0)
     /\ report.categories.cs_electives.percent =
          (CASE Done(ElectivePool) = 0 -> 0
             [] Done(ElectivePool) = 1 -> 33
             [] Done(ElectivePool) = 2 -> 67
             [] OTHER -> 100)
     /\ report.categories.cs_systems.percent =
          50 * Done({"CS 4104"}) + (IF Done(SystemsPool) >= 1 THEN 50 ELSE 0)

\* More than N courses of every pool are completed: two statistics courses,
\* two capstone courses, two systems electives and, with CS 4104 and the four
\* of these that are CS courses, five CS electives.
C15_Witness ==
  /\ Done(StatsPool) = 2
  /\ Done(CapstonePool) = 2
  /\ Done(SystemsPool) = 2
  /\ Done(ElectivePool) = 5
  /\ degreeProgress.categories.cs_systems.percent = 100
  /\ degreeProgress.overall.completedCourses = 7

\* C16: the planned credits of the progress report are the summed credits of
\* the courses that are in the plan and not completed.
C16_PlannedCreditsSkipCompleted ==
  degreeProgress.overall.plannedCredits =
    SumCreditsOfSet(allPlannedCourses \ completedCodes)

(***************************************************************************)
(* generateLocalAnalysis                                                   *)
(***************************************************************************)

\* getSemesterCredits(semesterId)
getSemesterCredits(semesterId) == SumCredits(semesterPlan[semesterId])

\* The ratings of info.professors, in tenths.
ProfessorRatings(code) ==
  CASE code = "CS 1114" -> {42, 38}
    [] code = "CS 3114" -> {43, 34}
    [] code = "CS 4104" -> {35, 42}
    [] code = "CS 4114" -> {42}
    [] code = "CS 4254" -> {41}
    [] code = "CS 4624" -> {42}
    [] code = "CS 4644" -> {46}
    [] code = "MATH 1225" -> {40, 35}
    [] code = "STAT 3006" -> {45}
    [] code = "PHYS 2305" -> {38}
    [] OTHER -> {}

\* bestProf && bestProf.rating >= 4.3, bestProf being the first professor
\* after the sort by falling rating.
HasGreatProfessor(code) ==
  /\ ProfessorRatings(code) # {}
  /\ Max(ProfessorRatings(code)) >= 43

\* Variant: a semester of exactly 18 credits counts as too heavy.
IsTooHeavyFrom18(credits) == credits >= 18

\* credits > 18
IsTooHeavy(credits) == credits > 18

\* The forEach over the courses of a semester: one issue for each course
\* whose prerequisites are not met.
RECURSIVE MissingPrereqIssues(_, _)
MissingPrereqIssues(courses, semesterId) ==
  IF courses = <<>> THEN <<>>
  ELSE (IF prereqsMet(Head(courses), semesterId) = "false"
        THEN <<[kind |-> "Missing prerequisites", subject |-> Head(courses),
                n |-> 0]>>
        ELSE <<>>)
       \o MissingPrereqIssues(Tail(courses), semesterId)

\* The issues one semester adds, in the order they are pushed.
SemesterIssues(semesterId) ==
  LET courses == semesterPlan[semesterId]
      credits == getSemesterCredits(semesterId)
  IN (IF IsTooHeavy(credits)
      THEN <<[kind |-> "credits is too heavy", subject |-> semesterId,
              n |-> credits]>>
      ELSE <<>>)
     \o (IF HardCount(courses) >= 3
         THEN <<[kind |-> "difficult courses together", subject |-> semesterId,
                 n |-> HardCount(courses)]>>
         ELSE <<>>)
     \o MissingPrereqIssues(courses, semesterId)

\* The positive one semester adds.
SemesterPositives(semesterId) ==
  LET credits == getSemesterCredits(semesterId)
  IN IF credits >= 15 /\ credits <= 16
     THEN <<[kind |-> "Balanced credits", subject |-> semesterId, n |-> credits]>>
     ELSE <<>>

\* SEMESTERS.forEach, from the semester of index k on.
RECURSIVE IssuesFrom(_)
IssuesFrom(k) ==
  IF k > Len(SEMESTERS) THEN <<>>
  ELSE SemesterIssues(SEMESTERS[k]) \o IssuesFrom(k + 1)

RECURSIVE PositivesFrom(_)
PositivesFrom(k) ==
  IF k > Len(SEMESTERS) THEN <<>>
  ELSE SemesterPositives(SEMESTERS[k]) \o PositivesFrom(k + 1)

\* Object.values(semesterPlan).flat(), from the semester of index k on.
RECURSIVE FlatPlanFrom(_)
FlatPlanFrom(k) ==
  IF k > Len(SEMESTERS) THEN <<>>
  ELSE semesterPlan[SEMESTERS[k]] \o FlatPlanFrom(k + 1)

\* The positives of the professor pass over a list of codes.
RECURSIVE ProfessorPositives(_)
ProfessorPositives(codes) ==
  IF codes = <<>> THEN <<>>
  ELSE (IF HasGreatProfessor(Head(codes))
        THEN <<[kind |-> "Great professor option", subject |-> Head(codes),
                n |-> Max(ProfessorRatings(Head(codes)))]>>
        ELSE <<>>)
       \o ProfessorPositives(Tail(codes))

\* Math.max(a, b)
MathMax(a, b) == IF a >= b THEN a ELSE b

\* Variant: the score is not clamped.
overallScoreUnclamped(issues, positives) ==
  100 - Len(issues) * 12 + Len(positives) * 5

\* Math.max(0, Math.min(100, 100 - issues.length * 12 + positives.length * 5))
overallScore(issues, positives) ==
  MathMax(0, MathMin(100, 100 - Len(issues) * 12 + Len(positives) * 5))

\* The report generateLocalAnalysis returns for the current state.
generateLocalAnalysis ==
  LET issues == IssuesFrom(1)
      positives ==
        PositivesFrom(1)
        \o (IF bestProfessors THEN ProfessorPositives(FlatPlanFrom(1)) ELSE <<>>)
      suggestions ==
        (IF "CS 4604" \notin allPlannedCourses \cup completedCodes
         THEN <<"Add CS 4604">> ELSE <<>>)
        \o (IF "CS 4804" \notin allPlannedCourses \cup completedCodes
            THEN <<"Add CS 4804">> ELSE <<>>)
  IN [overallScore |-> overallScore(issues, positives),
      issues |-> issues,
      suggestions |-> suggestions,
      positives |-> positives]

\* runAiAnalysis when the request to /analyze-plan throws: the catch installs
\* the local analysis, and the busy flag is cleared again.
RunLocalAnalysis ==
  /\ pc = "idle"
  /\ draggedCourse = NoDrag
  /\ aiAnalysis' = generateLocalAnalysis
  /\ analyzing' = FALSE
  /\ UNCHANGED <<response, inputVars, semesterPlan, autoplanWarnings, pc, schedVars,
                 dragVars, treeNodes, hasPrereqs>>

\* The first semester of a stored plan: courses of the catalog in a fixed
\* order, each present or not.
RECURSIVE SubLists(_)
SubLists(list) ==
  IF list = <<>> THEN {<<>>}
  ELSE LET rest == SubLists(Tail(list))
       IN rest \cup {<<Head(list)>> \o l : l \in rest}

\* The plans the analysis is run on (handleLoadPlan installs plan.plan_data).
AnalysisPlans ==
  {[EMPTY_PLAN EXCEPT !["fall1"] = first, !["spring1"] = second,
                      !["fall2"] = third] :
     first \in SubLists(<<"CS 1114", "CS 3114", "CS 4104", "CS 4114", "CS 4254",
                          "CS 4624", "CS 4644", "PHYS 2305">>),
     second \in {<<>>, <<"CS 4624">>},
     third \in {<<>>, <<"CS 3114">>}}

\* The completed sets: nothing, or the prerequisites outside the plans.
AnalysisCompleted ==
  {{}, {"CS 2114", "CS 2505", "CS 3214", "MATH 1225", "MATH 2114"}}

InitAnalysis ==
  /\ allCourses = ProgressCatalog
  /\ completedCodes \in AnalysisCompleted
  /\ inProgressCodes \in {{}, {"CS 3114"}}
  /\ balanced = TRUE
  /\ bestProfessors \in BOOLEAN
  /\ semesterPlan \in AnalysisPlans
  /\ autoplanWarnings = <<>>
  /\ analyzing = FALSE
  /\ pc = "idle"
  /\ toPlace = <<>>
  /\ placedBySemester = [k \in SemIdxs |-> <<>>]
  /\ placed = {}
  /\ changed = FALSE
  /\ passes = 0
  /\ i = -1
  /\ draggedCourse = NoDrag
  /\ dragSource = NoDrag
  /\ treeNodes = [n \in NodeIds |-> [type |-> "AND", requirements |-> <<>>]]
  /\ hasPrereqs = "none"
  /\ coursesLoading = FALSE
  /\ aiAnalysis = NoAnalysis
  /\ response = NoResponse

NextAnalysis == aiAnalysis = NoAnalysis /\ RunLocalAnalysis

SpecAnalysis == InitAnalysis /\ [][NextAnalysis]_vars

\* The issues of a report that are of one kind and about one subject.
IssuesAbout(report, kind, subject) ==
  {k \in 1..Len(report.issues) :
     report.issues[k].kind = kind /\ report.issues[k].subject = subject}

\* The credits of a semester, summed over the places of its list.
RECURSIVE CreditsUpTo(_, _)
CreditsUpTo(list, k) ==
  IF k = 0 THEN 0
  ELSE CreditsUpTo(list, k - 1)
       + (IF list[k] \in DOMAIN allCourses /\ allCourses[list[k]].credits # 0
          THEN allCourses[list[k]].credits ELSE 3)

\* C17: the report holds an overload issue for a semester if and only if the
\* credits of its courses sum to more than 18; a semester of exactly 18
\* credits has none, one of 19 credits has one.
C17_OverloadIffOver18 ==
  LET report == generateLocalAnalysis
  IN \A s \in SemesterIds :
       LET credits == CreditsUpTo(semesterPlan[s], Len(semesterPlan[s]))
           flags == Cardinality(IssuesAbout(report, "credits is too heavy", s))
       IN /\ flags = (IF credits > 18 THEN 1 ELSE 0)
          /\ aiAnalysis # NoAnalysis => aiAnalysis = report

\* The analysis has run on a plan whose first semester holds five 3-credit
\* courses and the 4-credit course, 19 credits, and is flagged.
C17_Witness ==
  /\ aiAnalysis # NoAnalysis
  /\ Len(semesterPlan["fall1"]) = 6
  /\ Includes(semesterPlan["fall1"], "PHYS 2305")
  /\ getSemesterCredits("fall1") = 19
  /\ IssuesAbout(aiAnalysis, "credits is too heavy", "fall1") # {}

\* The places (semester, position) of the plan that hold a code.
PlacesOf(code) ==
  {<<s, j>> \in SemesterIds \X (1..8) :
     j <= Len(semesterPlan[s]) /\ semesterPlan[s][j] = code}

\* The codes placed in a semester before the one given.
PlannedBefore(s) ==
  UNION {Range(semesterPlan[t]) : t \in {u \in SemesterIds : SemIndex(u) < SemIndex(s)}}

\* C18: the report holds one missing-prerequisites issue for every placement
\* of a course in a semester for which prereqsMet is false, and no other; and
\* a course with a prerequisite that is neither completed nor in progress nor
\* placed in an earlier semester (so at best in the same or a later one) is
\* flagged.
C18_MissingPrereqsFlagged ==
  LET report == generateLocalAnalysis
  IN \A code \in allPlannedCourses :
       /\ Cardinality(IssuesAbout(report, "Missing prerequisites", code)) =
            Cardinality({pl \in PlacesOf(code) : prereqsMet(code, pl[1]) = "false"})
       /\ \A pl \in PlacesOf(code) :
            (\E q \in allCourses[code].prereqs :
               /\ q \notin completedCodes \cup inProgressCodes
               /\ q \notin PlannedBefore(pl[1]))
            => IssuesAbout(report, "Missing prerequisites", code) # {}

\* The analysis has run on a plan that holds CS 4624 twice: in the first
\* semester together with its prerequisite CS 3114, which is flagged, and in
\* the second semester, after it, which is not; CS 3114, whose prerequisites
\* are completed, is not flagged.
C18_Witness ==
  /\ aiAnalysis # NoAnalysis
  /\ Includes(semesterPlan["fall1"], "CS 3114")
  /\ Includes(semesterPlan["fall1"], "CS 4624")
  /\ Includes(semesterPlan["spring1"], "CS 4624")
  /\ "CS 3114" \notin completedCodes \cup inProgressCodes
  /\ Cardinality(IssuesAbout(aiAnalysis, "Missing prerequisites", "CS 4624")) = 1
  /\ IssuesAbout(aiAnalysis, "Missing prerequisites", "CS 3114") = {}

\* C19: the overall score of the report is 100 - 12 * issues + 5 * positives,
\* raised to 0 when below and lowered to 100 when above, so an integer from 0
\* to 100.
C19_ScoreClamped ==
  LET report == generateLocalAnalysis
      raw == 100 - 12 * Len(report.issues) + 5 * Len(report.positives)
  IN /\ report.overallScore =
          (IF raw < 0 THEN 0 ELSE IF raw > 100 THEN 100 ELSE raw)
     /\ report.overallScore \in 0..100

\* The analysis has run on a plan with ten issues and three positives, which
\* gives -5 before the clamp and the score 0.
C19_Witness ==
  /\ aiAnalysis # NoAnalysis
  /\ Len(aiAnalysis.issues) = 10
  /\ Len(aiAnalysis.positives) = 3
  /\ aiAnalysis.overallScore = 0

(***************************************************************************)
(* Prerequisites that are not in the catalog                               *)
(***************************************************************************)

\* The course names a prerequisite that is neither taken nor in the catalog.
NamesMissing(code) ==
  \E p \in allCourses[code].prereqs :
    p \notin DOMAIN allCourses /\ p \notin alreadyTaken

\* The course, or a course it requires through untaken courses, names one.
DependsOnMissing(code) ==
  \E c \in ReachableFrom({code}) : NamesMissing(c)

\* C21 as stated: a candidate that names a missing prerequisite is never
\* placed, the run goes on to return within 20 passes, and every candidate
\* that does not depend on a missing prerequisite is placed.
C21_AsStated ==
  (\E c \in Candidates : NamesMissing(c)) =>
    /\ \A c \in Candidates : NamesMissing(c) => c \notin PlacedCodes(placedBySemester)
    /\ passes <= 20
    /\ RunsToReturn
    /\ Returned =>
         \A c \in Candidates :
           ~DependsOnMissing(c) => c \in PlacedCodes(placedBySemester)

\* C21 amended: a candidate that names a missing prerequisite, or depends on
\* one that does, is never placed; the run goes on to return within 20
\* passes; and a candidate that does not depend on a missing prerequisite is
\* left unplaced only if one of its untaken prerequisites is unplaced (a
\* cycle, or a prerequisite the caps kept out) or no semester from its
\* earliest eligible one on admits it.
C21_MissingPrereqNeverPlaced ==
  (\E c \in Candidates : NamesMissing(c)) =>
    /\ \A c \in Candidates :
         DependsOnMissing(c) => c \notin PlacedCodes(placedBySemester)
    /\ Returned =>
         \A c \in Candidates :
           DependsOnMissing(c) => c \notin PlacedCodes(PlanByIndex)
    /\ passes <= 20
    /\ RunsToReturn
    /\ Returned =>
         \A c \in Candidates :
           (~DependsOnMissing(c) /\ c \notin PlacedCodes(placedBySemester)) =>
             \/ getEarliestSemester(c, placedBySemester) = -1
             \/ NoSemesterAdmits(c, placedBySemester)

\* A returned plan for a catalog where A requires the unknown code, all three
\* courses are candidates, and B and C, which require nothing, are placed.
C21_Witness ==
  /\ Returned
  /\ {"A", "B", "C"} \subseteq Candidates
  /\ allCourses["A"].prereqs = {UnknownCode}
  /\ allCourses["B"].prereqs = {} /\ allCourses["C"].prereqs = {}
  /\ PlacedCodes(PlanByIndex) = {"B", "C"}

(***************************************************************************)
(* The pass loop of the local scheduler                                    *)
(***************************************************************************)

IsPrefix(a, b) == Len(a) <= Len(b) /\ SubSeq(b, 1, Len(a)) = a

\* No duplicate, every semester within the credit cap, and every untaken
\* prerequisite of a placed course in a semester of smaller index.
PartialPlanValid(pbs) ==
  /\ NoDuplicates(pbs)
  /\ \A k \in SemIdxs : SumCredits(pbs[k]) <= (IF balanced THEN 15 ELSE 18)
  /\ \A k \in SemIdxs : \A c \in Range(pbs[k]) :
       \A p \in allCourses[c].prereqs :
         \/ p \in completedCodes \cup inProgressCodes
         \/ \E j \in SemIdxs : j < k /\ Includes(pbs[j], p)

\* One step of a run: appended to, valid at the boundary, installed as built.
AppendOnlyStep ==
  pc \in {"while", "for"} =>
    /\ \A k \in SemIdxs : IsPrefix(placedBySemester[k], placedBySemester'[k])
    /\ pc' = "while" => PartialPlanValid(placedBySemester')
    /\ pc' = "returned_local" =>
         \A k \in SemIdxs : semesterPlan'[SEMESTERS[k + 1]] = placedBySemester[k]

\* C22: during a run of the scheduler every step leaves each semester's list
\* a prefix of what it becomes (placements are appended, never moved or
\* removed), the plan at every pass boundary has no duplicate, respects the
\* credit cap and orders prerequisites, and the plan that is installed at the
\* end is the plan under construction.
C22_AppendOnly == [][AppendOnlyStep]_vars

\* The boundary after the second pass: A and B are placed, in the first and
\* the second semester, and C, which requires B, is still to be placed.
C22_Witness ==
  /\ pc = "while" /\ passes = 2 /\ changed
  /\ placedBySemester[0] = <<"A">> /\ placedBySemester[1] = <<"B">>
  /\ Includes(toPlace, "C")
  /\ allCourses["C"].prereqs = {"B"}

\* One step seen from the loop condition.
PassLoopStep ==
  /\ passes' <= 20
  /\ (pc = "while" /\ passes' # passes) =>
       /\ passes' = passes + 1 /\ passes < 20
       /\ changed /\ ~changed'
  /\ pc = "for" =>
       /\ passes' = passes
       /\ changed' =
            (changed \/ PlacedCodes(placedBySemester') # PlacedCodes(placedBySemester))
  /\ (pc = "while" /\ ~changed) =>
       /\ passes' = passes
       /\ pc' = "returned_local"

\* C23: a pass starts only when the pass before it placed a course (or none
\* has run) and fewer than 20 have run; the flag that carries this is false
\* at the start of a pass and becomes true exactly when a step of the pass
\* places a course; after a pass that placed nothing the loop ends; and the
\* number of passes never exceeds 20.
C23_PassLoop == [][PassLoopStep]_vars

\* A run of four passes: the first three placed one course each (the scan
\* meets C, then B, then A, and C requires B, which requires A), the fourth
\* placed nothing.
C23_Witness ==
  /\ Returned /\ passes = 4 /\ ~changed
  /\ PlacedCodes(PlanByIndex) = {"A", "B", "C"}
  /\ allCourses["C"].prereqs = {"B"} /\ allCourses["B"].prereqs = {"A"}

(***************************************************************************)
(* generateOptimalSchedule with the backend request                        *)
(***************************************************************************)

\* Plans a backend may send.
BackendPlans ==
  { [EMPTY_PLAN EXCEPT !["fall1"] = <<"B">>],
    [EMPTY_PLAN EXCEPT !["fall1"] = <<"C", "A">>, !["spring1"] = <<"B">>] }

\* The ways the request settles: fetch or res.json() throws, or data arrives
\* with or without success, a plan and warnings (a missing warnings field
\* acts as the empty list).
Responses ==
  {[threw |-> TRUE, success |-> FALSE, plan |-> NoPlan, warnings |-> <<>>]}
  \cup [threw : {FALSE}, success : BOOLEAN, plan : BackendPlans \cup {NoPlan},
        warnings : {<<>>, <<"w">>}]

\* Variant: success alone decides.
AcceptedSuccessOnly(data) == ~data.threw /\ data.success

\* if (data.success && data.plan), reached only when nothing threw.
Accepted(data) == ~data.threw /\ data.success /\ data.plan # NoPlan

\* The awaited request settles.
FetchSettles ==
  /\ pc = "fetch"
  /\ response = NoResponse
  /\ response' \in Responses
  /\ UNCHANGED <<inputVars, semesterPlan, autoplanWarnings, analyzing, pc,
                 schedVars, dragVars, evalVars>>

\* The branch of the if: the backend's plan is installed and the function
\* returns.
BackendInstall ==
  /\ pc = "fetch"
  /\ response # NoResponse
  /\ Accepted(response)
  /\ semesterPlan' = response.plan
  /\ autoplanWarnings' =
       IF Len(response.warnings) > 0 THEN response.warnings ELSE autoplanWarnings
  /\ analyzing' = FALSE
  /\ pc' = "returned_backend"
  /\ UNCHANGED <<response, inputVars, schedVars, dragVars, evalVars>>

\* Past the try block: the fallback starts the local scheduler.
LocalFallback ==
  /\ response # NoResponse
  /\ ~Accepted(response)
  /\ LocalBegin

\* The catalogs of these runs: three hard 3-credit electives, any flat lists.
AutoPlanCatalogs ==
  {[c \in Codes |->
      CourseInfo([credits |-> 3, difficulty |-> 4, category |-> "cs_elective",
                  required |-> TRUE], pre[c])] :
     pre \in {f \in [Codes -> SUBSET AllCodes] : \A c \in Codes : f[c] \in PrereqLists(c)}}

\* The plan on the board before the request: one course added by hand.
PriorPlan == [EMPTY_PLAN EXCEPT !["spring4"] = <<"C">>]

InitAutoPlan ==
  /\ allCourses \in AutoPlanCatalogs
  /\ completedCodes \in SUBSET TakenPool
  /\ inProgressCodes \in SUBSET (TakenPool \ completedCodes)
  /\ balanced \in BOOLEAN
  /\ semesterPlan = PriorPlan
  /\ autoplanWarnings = <<>>
  /\ analyzing = FALSE
  /\ pc = "idle"
  /\ response = NoResponse
  /\ toPlace = <<>>
  /\ placedBySemester = [k \in SemIdxs |-> <<>>]
  /\ placed = {}
  /\ changed = FALSE
  /\ passes = 0
  /\ i = -1
  /\ draggedCourse = NoDrag
  /\ dragSource = NoDrag
  /\ treeNodes = [n \in NodeIds |-> [type |-> "AND", requirements |-> <<>>]]
  /\ hasPrereqs = "none"
  /\ coursesLoading = FALSE
  /\ aiAnalysis = NoAnalysis
  /\ bestProfessors = TRUE

NextAutoPlan ==
  \/ AutoPlanStart
  \/ FetchSettles
  \/ BackendInstall
  \/ LocalFallback
  \/ PassBegin
  \/ ForStep
  \/ LocalFinish

SpecAutoPlan == InitAutoPlan /\ [][NextAutoPlan]_vars

Finished == pc \in {"returned_backend", "returned_local"}

\* The response has success and a plan.
HasSuccessAndPlan ==
  /\ response # NoResponse
  /\ response.threw = FALSE /\ response.success = TRUE
  /\ response.plan \in BackendPlans

\* One step of the operation, seen from the plan and the busy flag.
OnePlanStep ==
  /\ semesterPlan' # semesterPlan => (~Finished /\ Finished')
  /\ (~Finished /\ Finished') => ~analyzing'
  /\ (pc = "fetch" /\ response # NoResponse) =>
       IF HasSuccessAndPlan
       THEN /\ pc' = "returned_backend"
            /\ semesterPlan' = response.plan
            /\ schedVars' = schedVars
       ELSE /\ pc' = "while"
            /\ semesterPlan' = semesterPlan
  /\ pc' = "returned_backend" => HasSuccessAndPlan
  /\ (pc = "while" /\ pc' = "returned_local") =>
       /\ ~HasSuccessAndPlan
       /\ \A k \in SemIdxs : semesterPlan'[SEMESTERS[k + 1]] = placedBySemester[k]

\* C24: however the backend request settles, the plan is written once, at the
\* step that finishes the operation: with success and a plan the response's
\* plan is installed and no step of the local scheduler runs; when the
\* request throws, or success or the plan is lacking, the local scheduler
\* runs and the plan it built is installed; and the busy flag is false once
\* the operation has finished.
C24_OnePlanInstalled == [][OnePlanStep]_vars

\* The operation has finished on a response with success, a plan and a
\* warning: the response's plan replaced the one on the board, the local
\* scheduler took no step, and the busy flag is false.
C24_Witness ==
  /\ pc = "returned_backend"
  /\ response.warnings = <<"w">>
  /\ semesterPlan = response.plan /\ semesterPlan # PriorPlan
  /\ ~analyzing
  /\ passes = 0 /\ PlacedCodes(placedBySemester) = {}

(***************************************************************************)
(* Dropping a course on the semester it came from                          *)
(***************************************************************************)

\* How often the list holds the code.
Occurrences(list, code) == Cardinality({j \in 1..Len(list) : list[j] = code})

\* A drag that began in a semester ends with the course still in that
\* semester: a drop on the same semester (a drop elsewhere filters the course
\* out of its source), or the end of the drag without a drop.
BackOnSameSemester ==
  /\ draggedCourse # NoDrag /\ draggedCourse' = NoDrag
  /\ dragSource \in SemesterIds
  /\ Occurrences(semesterPlan[dragSource], draggedCourse) = 1
  /\ Includes(semesterPlan'[dragSource], draggedCourse)

\* C25: a course dragged from a semester and dropped on that same semester
\* appears exactly once in it afterwards, and the plan is unchanged.
C25_SameSemesterDropIsNoOp ==
  [][BackOnSameSemester =>
       /\ Occurrences(semesterPlan'[dragSource], draggedCourse) = 1
       /\ semesterPlan' = semesterPlan]_vars

(***************************************************************************)
(* The overall planned count of the progress report                        *)
(***************************************************************************)

\* C26: the overall planned-course count of the progress report is never
\* negative, and the overall percentWithPlanned is at least the overall
\* percent, for every completed set and every plan.
C26_PlannedCountNonNegative ==
  LET report == degreeProgress
  IN /\ report.overall.plannedCourses >= 0
     /\ report.overall.percentWithPlanned >= report.overall.percent

(***************************************************************************)
(* The scheduler on a course that has a requirement tree                   *)
(***************************************************************************)

\* The codes of the COURSE leaves of the tree under node 1.
LeafCodes ==
  UNION {{treeNodes[n].requirements[k].code :
            k \in {j \in 1..Len(treeNodes[n].requirements) :
                     ~IsRef(treeNodes[n].requirements[j])}} :
         n \in RefClosure({1})}

\* The course whose catalog entry carries prereqs_structured.
PlannedTreeCourse == "C"

\* A and B are plain courses; the third course has the tree under node 1 and
\* the given flat list.
TreePlanCatalog(flat) ==
  [c \in Codes |->
     IF c = PlannedTreeCourse
     THEN [prereqs |-> flat, prereqs_structured |-> [ref |-> 1], credits |-> 3,
           difficulty |-> 3, category |-> "cs_core", required |-> TRUE]
     ELSE PlainCatalog[c]]

\* Finite trees over the other courses; the flat list is absent (empty) or
\* names every code of the tree.
InitTreePlan ==
  /\ treeNodes \in [NodeIds -> InnerNodes]
  /\ Acyclic
  /\ PlannedTreeCourse \notin LeafCodes
  /\ allCourses \in {TreePlanCatalog(flat) : flat \in {{}, LeafCodes}}
  /\ completedCodes \in SUBSET TakenPool
  /\ inProgressCodes = {}
  /\ balanced = TRUE
  /\ semesterPlan = EMPTY_PLAN
  /\ autoplanWarnings = <<>>
  /\ analyzing = FALSE
  /\ pc = "idle"
  /\ response = NoResponse
  /\ toPlace = <<>>
  /\ placedBySemester = [k \in SemIdxs |-> <<>>]
  /\ placed = {}
  /\ changed = FALSE
  /\ passes = 0
  /\ i = -1
  /\ draggedCourse = NoDrag
  /\ dragSource = NoDrag
  /\ hasPrereqs = "none"
  /\ coursesLoading = FALSE
  /\ aiAnalysis = NoAnalysis
  /\ bestProfessors = TRUE

SpecTreePlan == InitTreePlan /\ [][Next]_vars

\* C27: in the plan the scheduler installs, prereqsMet is true of every
\* placed course that has a requirement tree, for the semester it is in.
C27_PlacementRespectsTree ==
  Returned =>
    \A c \in Codes : \A s \in SemesterIds :
      (allCourses[c].prereqs_structured # NoTree /\ Includes(semesterPlan[s], c)) =>
        prereqsMet(c, s) = "true"

(***************************************************************************)
(* The validator on a plan of the balanced scheduler                       *)
(***************************************************************************)

\* C28: for a catalog of flat prerequisite lists, the analysis of a plan that
\* the scheduler installed in balanced mode has no issue: no semester over 18
\* credits, none with three or more courses of difficulty 4 or more, and
\* prereqsMet true of every placed course in its semester.
C28_BalancedPlanHasNoIssue ==
  (Returned /\ balanced) =>
    /\ generateLocalAnalysis.issues = <<>>
    /\ \A s \in SemesterIds :
         /\ SumCredits(semesterPlan[s]) <= 18
         /\ HardCount(semesterPlan[s]) < 3
         /\ \A k \in 1..Len(semesterPlan[s]) :
              prereqsMet(semesterPlan[s][k], s) = "true"

\* A balanced plan where the difficulty cap acted: two hard courses share the
\* first semester and a third hard course without untaken prerequisites sits
\* in the second; the analysis reports no issue.
C28_Witness ==
  /\ Returned /\ balanced
  /\ HardCount(semesterPlan["fall1"]) = 2
  /\ \E c \in Range(semesterPlan["spring1"]) :
       DifficultyOf(c) >= 4 /\ UntakenPrereqs(c) = {}
  /\ generateLocalAnalysis.issues = <<>>

(***************************************************************************)
(* How many passes the scheduler needs                                     *)
(***************************************************************************)

\* Chain catalogs: every course is a hard 3-credit elective, except that the
\* first and the last may be a 16-credit course; each course but the first
\* has no prerequisite or requires the course before it, which the scan, going
\* from the end of toPlace to its start, meets later in the pass.
ChainKinds ==
  { [credits |-> 3, difficulty |-> 4, category |-> "cs_elective", required |-> TRUE],
    [credits |-> 16, difficulty |-> 2, category |-> "science", required |-> FALSE] }

ChainCatalogs ==
  {[c \in ChainCodes |->
      LET k == CHOOSE j \in 1..Len(ChainOrder) : ChainOrder[j] = c
      IN CourseInfo(IF k = 1 THEN first ELSE IF k = Len(ChainOrder) THEN last
                    ELSE CHOOSE kind \in ChainKinds : kind.credits = 3,
                    IF k > 1 /\ k \in linked THEN {ChainOrder[k - 1]} ELSE {})] :
     first \in ChainKinds, last \in ChainKinds,
     linked \in SUBSET (2..Len(ChainOrder))}

InitChain ==
  /\ allCourses \in ChainCatalogs
  /\ completedCodes = {}
  /\ inProgressCodes = {}
  /\ balanced \in BOOLEAN
  /\ semesterPlan = EMPTY_PLAN
  /\ autoplanWarnings = <<>>
  /\ analyzing = FALSE
  /\ pc = "idle"
  /\ response = NoResponse
  /\ toPlace = <<>>
  /\ placedBySemester = [k \in SemIdxs |-> <<>>]
  /\ placed = {}
  /\ changed = FALSE
  /\ passes = 0
  /\ i = -1
  /\ draggedCourse = NoDrag
  /\ dragSource = NoDrag
  /\ treeNodes = [n \in NodeIds |-> [type |-> "AND", requirements |-> <<>>]]
  /\ hasPrereqs = "none"
  /\ coursesLoading = FALSE
  /\ aiAnalysis = NoAnalysis
  /\ bestProfessors = TRUE

SpecChain == InitChain /\ [][Next]_vars

\* The candidate is eligible (every untaken prerequisite is placed) and no
\* semester from its earliest one on admits it.
Refused(code, pbs) ==
  /\ code \notin PlacedCodes(pbs)
  /\ NoSemesterAdmits(code, pbs)

\* One step: a refused candidate stays refused, at most 9 passes have begun,
\* and the loop is left with the flag false.
EligibleOnceStep ==
  /\ pc \in {"while", "for"} =>
       \A c \in Range(toPlace) :
         Refused(c, placedBySemester) => Refused(c, placedBySemester')
  /\ passes' <= 9
  /\ pc' = "returned_local" => ~changed'

OtherTypeLeaf == [type |-> "NOT", code |-> "A"]

\* Entries of a requirements array here: a leaf, null, or a node of another
\* type; node 1 may also refer to node 2, which refers to no node.
LooseEntries(code) == {[type |-> "COURSE", code |-> code], NoTree, OtherTypeLeaf}

LooseLists(entries) == UNION {[1..n -> entries] : n \in 0..MaxChildren}

LooseTrees ==
  {<<top, sub>> :
     top \in [type : {"AND", "OR", "NOT"},
              requirements : LooseLists(LooseEntries("B") \cup {[ref |-> 2]})],
     sub \in [type : {"AND", "OR", "NOT"},
              requirements : LooseLists(LooseEntries("A"))]}

\* The plans: the tree course and the unknown code in the second semester.
UnknownPlans ==
  {[EMPTY_PLAN EXCEPT !["fall1"] = <<"A">>, !["spring1"] = second] :
     second \in {<<UnknownCode>>, <<PlannedTreeCourse, UnknownCode>>}}

InitUnknown ==
  /\ treeNodes \in LooseTrees
  /\ allCourses = TreePlanCatalog({})
  /\ completedCodes \in SUBSET {"B"}
  /\ inProgressCodes = {}
  /\ balanced = TRUE
  /\ semesterPlan \in UnknownPlans
  /\ autoplanWarnings = <<>>
  /\ analyzing = FALSE
  /\ pc = "idle"
  /\ response = NoResponse
  /\ toPlace = <<>>
  /\ placedBySemester = [k \in SemIdxs |-> <<>>]
  /\ placed = {}
  /\ changed = FALSE
  /\ passes = 0
  /\ i = -1
  /\ draggedCourse = NoDrag
  /\ dragSource = NoDrag
  /\ hasPrereqs = "none"
  /\ coursesLoading = FALSE
  /\ aiAnalysis = NoAnalysis
  /\ bestProfessors = TRUE

\* The render checks the unknown code of the plan; the analysis runs.
NextUnknown ==
  \/ /\ hasPrereqs = "none"
     /\ Includes(semesterPlan["spring1"], UnknownCode)
     /\ CheckPrereqs(UnknownCode, "spring1")
  \/ /\ aiAnalysis = NoAnalysis
     /\ RunLocalAnalysis

SpecUnknown == InitUnknown /\ [][NextUnknown]_vars

\* The entries of the two requirements arrays that are null or of another
\* type, and the nodes of another type.
LooseNodes ==
  {NoTree}
  \cup {[ref |-> n] : n \in {m \in NodeIds :
                                treeNodes[m].type \notin {"COURSE", "AND", "OR"}}}
  \cup UNION {{treeNodes[n].requirements[k] :
                 k \in {j \in 1..Len(treeNodes[n].requirements) :
                          treeNodes[n].requirements[j] \in {NoTree, OtherTypeLeaf}}} :
              n \in NodeIds}

\* C30: prereqsMet is true of a code that is not in the catalog, for every
\* semester of every plan, and the analysis has no missing-prerequisites
\* issue about such a code; a tree node that is null, or whose type is none
\* of COURSE, AND and OR, evaluates to true against every taken set.
C30_UnknownIsSatisfied ==
  /\ \A s \in SemesterIds : prereqsMet(UnknownCode, s) = "true"
  /\ hasPrereqs \in {"none", "true"}
  /\ aiAnalysis # NoAnalysis =>
       IssuesAbout(aiAnalysis, "Missing prerequisites", UnknownCode) = {}
  /\ \A node \in LooseNodes : \A takenSet \in SUBSET Codes :
       evaluatePrereqTree(node, takenSet, 0) = "true"

\* The plan holds the unknown code and the tree course, whose tree is an AND
\* of a null entry and a node of another type; the check of the unknown code
\* returned true and the analysis reports no missing prerequisites.
C30_Witness ==
  /\ hasPrereqs = "true"
  /\ aiAnalysis # NoAnalysis
  /\ semesterPlan["spring1"] = <<PlannedTreeCourse, UnknownCode>>
  /\ treeNodes[1] = [type |-> "AND", requirements |-> <<NoTree, OtherTypeLeaf>>]
  /\ \A k \in 1..Len(aiAnalysis.issues) :
       aiAnalysis.issues[k].kind # "Missing prerequisites"
====
